---- MODULE Spec2Model ----
(***************************************************************************)
(* Model of the import reconciliation engine of the Viwoods notes importer *)
(* (src/unnamed/part_001): fingerprinting, the page document's embedded    *)
(* fingerprint, analyzeChanges, processNoteFile and                        *)
(* importSelectedPagesWithProgress.                                        *)
(*                                                                         *)
(* Strings whose characters the code inspects (fingerprints, the           *)
(* original_image_hash line of a page document) are sequences of           *)
(* one-character strings, so that startsWith, padEnd, substring and the    *)
(* regular expression of analyzeChanges are computed, not assumed.         *)
(***************************************************************************)
EXTENDS Integers, Sequences, FiniteSets, TLC

\* ------------------------------------------------------------------ bounds
\* Highest page number of a book or a manifest.
MaxPage == 3

\* Page positions of the archives imported in the modelled runs.
RunPages == 2

\* Largest settings.batchSize of the modelled runs.
BatchSize == 2

\* settings.maxHistoryEntries of the modelled runs.
MaxHistoryEntries == 2

\* Accepted calls of processNoteFile in a behaviour.
MaxRuns == 2

\* Injected failures (a page task's step, a manifest write) in a behaviour.
MaxFailures == 1

\* Edits of the user outside the import (a reset of the hashes, a change of
\* the background setting) in a behaviour.
MaxEdits == 1
MaxAppends == 4
FolderDepth == 3
MaxAudioPages == 10
MaxBatchSize == 4

\* ------------------------------------------------------- program constants
\* hashHex.substring(0, 32) and padEnd(32, '0')
HashWidth == 32

Pages == 1..MaxPage

\* ----------------------------------------------------------- string helpers
HexChars == {"0", "1", "2", "3", "4", "5", "6", "7", "8", "9",
             "a", "b", "c", "d", "e", "f"}

DigitChar(d) == <<"0", "1", "2", "3", "4", "5", "6", "7", "8", "9">>[d + 1]

\* Decimal text of a natural number (template-literal number formatting).
RECURSIVE NumToStr(_)
NumToStr(n) == IF n < 10 THEN <<DigitChar(n)>>
               ELSE NumToStr(n \div 10) \o <<DigitChar(n % 10)>>

\* String.prototype.startsWith
StartsWith(s, p) == /\ Len(s) >= Len(p)
                    /\ SubSeq(s, 1, Len(p)) = p

\* String.prototype.substring(0, n)
Substring0(s, n) == SubSeq(s, 1, IF Len(s) < n THEN Len(s) ELSE n)

\* String.prototype.padEnd(n, c) for a one-character pad string
PadEnd(s, n, c) == IF Len(s) >= n THEN s
                   ELSE s \o [i \in 1..(n - Len(s)) |-> c]

RecoveredPrefix == <<"r", "e", "c", "o", "v", "e", "r", "e", "d", "-">>
ResetPrefix == <<"R", "E", "S", "E", "T", "-">>
FallbackPrefix == <<"f", "a", "l", "l", "b", "a", "c", "k", "-">>
UnknownWord == <<"u", "n", "k", "n", "o", "w", "n", "-">>

\* ------------------------------------------------------------ fingerprints
\* The image contents that occur in the modelled archives.
ImageBytes == {"A", "B", "C", "D"}

\* blob.size of each content
BlobSize(bytes) == CASE bytes \in {"A", "D"} -> 5 [] bytes = "B" -> 7 [] OTHER -> 9

\* crypto.subtle.digest('SHA-256', buffer) as 64 hex characters: a fixed,
\* injective assignment of a hex string to each content.
Sha256Hex(bytes) ==
    LET pair == CASE bytes = "A" -> <<"3", "a">>
                  [] bytes = "B" -> <<"f", "a">>
                  [] bytes = "D" -> <<"7", "e">>
                  [] OTHER -> <<"0", "c">>
    IN [i \in 1..64 |-> pair[((i - 1) % 2) + 1]]

\* A blob of an archive entry: its bytes, and whether arrayBuffer()/digest
\* succeed on it.
Blob(bytes, readable) == [bytes |-> bytes, size |-> BlobSize(bytes), readable |-> readable]

\* hashImageData (part_001:1300-1313)
hashImageData(blob) ==
    IF blob.readable
    THEN Substring0(Sha256Hex(blob.bytes), HashWidth)
    ELSE Substring0(PadEnd(FallbackPrefix \o NumToStr(blob.size), HashWidth, "0"), HashWidth)

\* Date.now() values the environment can return.
Timestamps == {1700}

\* 'RESET-' + Date.now()   (reset-book-hashes, part_001:1225)
ResetHash(t) == ResetPrefix \o NumToStr(t)

\* `recovered-${size}-${mtime}` / 'recovered-unknown-' + pageNum (part_001:1541-1552)
RecoveredHash(hasImage, size, mtime, pageNum) ==
    IF hasImage
    THEN RecoveredPrefix \o NumToStr(size) \o <<"-">> \o NumToStr(mtime)
    ELSE RecoveredPrefix \o UnknownWord \o NumToStr(pageNum)

\* ---------------------------------------------------------- page documents
NoFile == [kind |-> "NoFile"]
NoLine == <<>>

\* The text the Executor puts after "original_image_hash:" in the
\* frontmatter:  ` "${page.image.hash}"`   (part_001:1981)
HashLine(hash) == <<" ", "\"">> \o hash \o <<"\"">>

RECURSIVE SkipSpaces(_)
SkipSpaces(s) == IF s # <<>> /\ Head(s) = " " THEN SkipSpaces(Tail(s)) ELSE s

RECURSIVE HexRun(_)
HexRun(s) == IF s # <<>> /\ Head(s) \in HexChars
             THEN <<Head(s)>> \o HexRun(Tail(s))
             ELSE <<>>

\* frontmatter.match(/original_image_hash:\s*"?([a-f0-9]+)"?/)  (part_001:1374):
\* the text after the key, optional blanks, an optional quote, then the
\* longest run of lower-case hex characters; <<>> when there is no match.
MatchHash(line) ==
    LET t == SkipSpaces(line)
        u == IF t # <<>> /\ Head(t) = "\"" THEN Tail(t) ELSE t
    IN HexRun(u)

\* A page document: the frontmatter's hash line (NoLine without metadata),
\* the audio section, the image block ("embed" | "failed" | "none") and the
\* transcription block ("none" | "placeholder" | "done").
Doc(line, audio, image, gemini) ==
    [hashLine |-> line, audio |-> audio, image |-> image, gemini |-> gemini]

\* fileHash of analyzeChanges (part_001:1359-1384): undefined (<<>>) when the
\* page file is missing, has no frontmatter or no matching line.
ReadFileHash(doc) == IF doc = NoFile THEN <<>> ELSE MatchHash(doc.hashLine)

\* ------------------------------------------------------------------- pages
NoAudio == [kind |-> "NoAudio"]
NoManifest == [kind |-> "NoManifest"]
\* A manifest file whose content JSON.parse rejects.
CorruptFile == [kind |-> "Corrupt"]
NoEntry == [kind |-> "NoEntry"]

\* PageData (part_001:59-71)
PageData(n, blob, audio, stroke) ==
    [pageNum |-> n, image |-> [blob |-> blob, hash |-> hashImageData(blob)],
     audio |-> audio, stroke |-> stroke]

\* The page numbers of a book, in order.
BookPageNums(pages) == [i \in 1..Len(pages) |-> pages[i].pageNum]

SeqToSet(s) == {s[i] : i \in 1..Len(s)}

\* Object.entries / Object.keys of importedPages: integer keys in ascending order.
RECURSIVE SortedKeys(_)
SortedKeys(S) == IF S = {} THEN <<>>
                 ELSE LET m == CHOOSE x \in S : \A y \in S : x <= y
                      IN <<m>> \o SortedKeys(S \ {m})

ManifestKeys(m) == {p \in Pages : m.importedPages[p] # NoEntry}

\* ----------------------------------------------------------- analyzeChanges
EmptySummary(total) ==
    [totalPages |-> total, newPages |-> <<>>, modifiedPages |-> <<>>,
     unchangedPages |-> <<>>, deletedPages |-> <<>>, errors |-> <<>>]

\* existing.fileHash || existing.manifestInfo.imageHash   (part_001:1400)
existingHashOf(entry, doc) ==
    IF ReadFileHash(doc) # <<>> THEN ReadFileHash(doc) ELSE entry.imageHash

\* The class and record of one decoded page that has a manifest entry
\* (part_001:1399-1439).
ClassifyExistingInverted(page, entry, doc) ==
    LET existingHash == existingHashOf(entry, doc)
    IN [pageNum |-> page.pageNum,
        type |-> IF existingHash = page.image.hash THEN "modified" ELSE "unchanged",
        oldHash |-> existingHash, newHash |-> page.image.hash,
        hasAudioChange |-> FALSE]

ClassifyExisting(page, entry, doc) ==
    LET existingHash == existingHashOf(entry, doc)
        isRecoveredHash == StartsWith(existingHash, RecoveredPrefix)
        isResetHash == StartsWith(existingHash, ResetPrefix)
        hashesMatch == existingHash = page.image.hash
    IN [pageNum |-> page.pageNum,
        type |-> IF isRecoveredHash \/ isResetHash THEN "modified"
                 ELSE IF ~hashesMatch THEN "modified" ELSE "unchanged",
        oldHash |-> existingHash, newHash |-> page.image.hash,
        hasAudioChange |-> IF isRecoveredHash \/ isResetHash \/ ~hashesMatch
                           THEN (page.audio # NoAudio) # entry.hasAudio
                           ELSE FALSE]

NewChange(page) ==
    [pageNum |-> page.pageNum, type |-> "new", oldHash |-> <<>>,
     newHash |-> page.image.hash, hasAudioChange |-> FALSE]

\* The manifest page numbers left in existingMap after the decoded pages were
\* consumed (part_001:1441-1455), in key order.
DeletedKeysAll(pages, manifest) == SortedKeys(ManifestKeys(manifest))

DeletedKeys(pages, manifest) ==
    SortedKeys(ManifestKeys(manifest) \ SeqToSet(BookPageNums(pages)))

DeletedChange(pageNum, entry, doc) ==
    [pageNum |-> pageNum, type |-> "deleted", oldHash |-> existingHashOf(entry, doc),
     newHash |-> <<>>, hasAudioChange |-> FALSE]

PagesOfType(changes, t) ==
    LET sel == SelectSeq(changes, LAMBDA c : c.type = t)
    IN [i \in 1..Len(sel) |-> sel[i].pageNum]

\* The change record of each decoded page when no manifest exists
\* (part_001:1336-1348).
BootstrapChangesAsModified(pages) ==
    [i \in 1..Len(pages) |-> [NewChange(pages[i]) EXCEPT !.type = "modified"]]

BootstrapChanges(pages) == [i \in 1..Len(pages) |-> NewChange(pages[i])]

\* summary.totalPages of analyzeChanges (part_001:1325)
AnalysisTotal(pages, manifest) == Len(pages)

\* analyzeChanges (part_001:1319-1467). docs[p] is the page document
\* "Page 00p.md" of the book folder, or NoFile.
analyzeChanges(pages, manifest, docs) ==
    IF manifest = NoManifest
    THEN LET changes == BootstrapChanges(pages)
         IN [changes |-> changes,
             summary |-> [EmptySummary(AnalysisTotal(pages, manifest))
                            EXCEPT !.newPages = PagesOfType(changes, "new")]]
    ELSE LET decoded ==
                 [i \in 1..Len(pages) |->
                     IF manifest.importedPages[pages[i].pageNum] = NoEntry
                     THEN NewChange(pages[i])
                     ELSE ClassifyExisting(pages[i],
                                           manifest.importedPages[pages[i].pageNum],
                                           docs[pages[i].pageNum])]
             gone == DeletedKeys(pages, manifest)
             deleted == [i \in 1..Len(gone) |->
                            DeletedChange(gone[i], manifest.importedPages[gone[i]],
                                          docs[gone[i]])]
             changes == decoded \o deleted
         IN [changes |-> changes,
             summary |-> [EmptySummary(AnalysisTotal(pages, manifest)) EXCEPT
                            !.newPages = PagesOfType(changes, "new"),
                            !.modifiedPages = PagesOfType(changes, "modified"),
                            !.unchangedPages = PagesOfType(changes, "unchanged"),
                            !.deletedPages = PagesOfType(changes, "deleted")]]

\* ------------------------------------------------------------------- state
VARIABLES
    settings,          \* this.settings of the plugin
    vault,             \* the book folder in the vault: manifest file, page
                       \* documents and artifacts
    importInProgress,  \* the plugin's re-entrancy flag
    run,               \* per caller of processNoteFile: its position and locals
    obs                \* observations of the current run (what it wrote, what failed)

vars == <<settings, vault, importInProgress, run, obs>>

\* The concurrent callers of processNoteFile (ribbon/command modal, drops).
Callers == {1, 2}

\* ImportManifest.importedPages[n]   (part_001:34-45)
Entry(hash, gemini, hasAudio, bg) ==
    [imageHash |-> hash, geminiProcessed |-> gemini, hasAudio |-> hasAudio,
     backgroundColor |-> bg]

NoEntries == [p \in Pages |-> NoEntry]

\* ImportManifest (part_001:31-50); history entries keep their summary kind.
Manifest(total, entries, history, lastImport) ==
    [totalPages |-> total, importedPages |-> entries, history |-> history,
     lastImport |-> lastImport]

NoAnalysis == [kind |-> "NoAnalysis"]

\* The locals of a processNoteFile call that has not been accepted.
IdleRun ==
    [pc |-> "idle", archive |-> "none", book |-> <<>>, hasExisting |-> FALSE,
     manifest |-> NoManifest, analysis |-> NoAnalysis, pagesToImport |-> <<>>,
     summary |-> EmptySummary(0), batchStart |-> 0, inflight |-> {},
     imageFilesToProcess |-> <<>>, error |-> "none"]

NoClean == [kind |-> "NoClean"]

\* Observations: per run, the artifact writes, the injected failures, the
\* saveManifest calls, the in-memory manifest the Executor started from,
\* whether the user edited something during the run and whether the run began
\* right after a clean run of the same archive under the same settings; the
\* notices shown to rejected callers; the last clean run (every page
\* imported, nothing failed); and the counts the bounds are set on.
NoObs == [writes |-> {}, failed |-> {}, saves |-> <<>>, before |-> NoManifest,
          afterClean |-> FALSE, rejected |-> {}, clean |-> NoClean, runs |-> 0,
          injected |-> 0, edits |-> 0, touched |-> FALSE,
          loaded |-> NoManifest, recovered |-> FALSE]

DefaultBackground == "#FFFFFF"

\* DEFAULT_SETTINGS (part_001:121-143), with the batch size of the model.
DefaultSettings ==
    [outputFormat |-> "png", backgroundColor |-> DefaultBackground,
     includeMetadata |-> TRUE, processWithGemini |-> FALSE,
     autoDetectChanges |-> TRUE, createBackups |-> TRUE, createIndex |-> TRUE,
     keepHistory |-> TRUE, maxHistoryEntries |-> MaxHistoryEntries,
     batchSize |-> BatchSize]

EmptyVault ==
    [manifestFile |-> NoManifest, folder |-> FALSE, index |-> FALSE, backups |-> 0,
     docs |-> [p \in Pages |-> NoFile],
     images |-> [p \in Pages |-> NoFile],
     audios |-> [p \in Pages |-> NoFile],
     svgs |-> [p \in Pages |-> NoFile]]

\* ------------------------------------------- analyzeChanges on bounded inputs
\* What an archive can hold at one page position: no bitmap (the page is
\* dropped from the book), or a bitmap that hashes, or one whose digest fails.
Missing == [kind |-> "Missing"]
Source(blob, audio, stroke) == [blob |-> blob, audio |-> audio, stroke |-> stroke]
PageSources == {Missing, Source(Blob("A", TRUE), FALSE, FALSE),
                Source(Blob("A", FALSE), FALSE, FALSE)}

\* The decoded pages of an archive given as [page position -> source]:
\* pageNum is the position, positions without a bitmap are skipped
\* (part_001:1732-1741, 1828-1838).
RECURSIVE DecodePages(_, _, _, _)
DecodePages(src, i, n, wantStrokes) ==
    IF i > n THEN <<>>
    ELSE (IF src[i] = Missing THEN <<>>
          ELSE <<PageData(i, src[i].blob,
                          IF src[i].audio THEN [name |-> i] ELSE NoAudio,
                          wantStrokes /\ src[i].stroke)>>)
         \o DecodePages(src, i + 1, n, wantStrokes)

\* What the vault and the manifest can hold for one page before an analysis:
\* <<manifest entry, page document>>.
StoredCases ==
    LET hA == hashImageData(Blob("A", TRUE))
        hB == hashImageData(Blob("B", TRUE))
        fA == hashImageData(Blob("A", FALSE))
    IN { <<NoEntry, NoFile>>,
         <<Entry(hA, FALSE, FALSE, DefaultBackground), Doc(HashLine(hA), FALSE, "embed", "none")>>,
         <<Entry(hB, FALSE, FALSE, DefaultBackground), Doc(NoLine, FALSE, "embed", "none")>>,
         <<Entry(hB, FALSE, FALSE, DefaultBackground), Doc(HashLine(hA), FALSE, "embed", "none")>>,
         <<Entry(fA, FALSE, FALSE, DefaultBackground), Doc(HashLine(fA), FALSE, "embed", "none")>>,
         <<Entry(hashImageData(Blob("D", FALSE)), FALSE, FALSE, DefaultBackground),
           Doc(NoLine, FALSE, "embed", "none")>> }
    \cup { <<Entry(ResetHash(t), FALSE, FALSE, DefaultBackground),
             Doc(HashLine(hashImageData(Blob("A", TRUE))), FALSE, "embed", "none")>> :
              t \in Timestamps }
    \cup { <<Entry(RecoveredHash(TRUE, 5, t, 1), FALSE, FALSE, DefaultBackground),
             Doc(NoLine, FALSE, "embed", "none")>> : t \in Timestamps }

InitAnalyze ==
    /\ settings = DefaultSettings
    /\ importInProgress = TRUE
    /\ obs = NoObs
    /\ \E src \in [Pages -> PageSources], hasManifest \in BOOLEAN :
          \E stored \in [Pages -> IF hasManifest THEN StoredCases ELSE {<<NoEntry, NoFile>>}] :
             /\ vault = [EmptyVault EXCEPT !.docs = [p \in Pages |-> stored[p][2]]]
             /\ run = [c \in Callers |->
                         IF c = 1
                         THEN [IdleRun EXCEPT
                                 !.pc = "loaded",
                                 !.book = DecodePages(src, 1, MaxPage, FALSE),
                                 !.hasExisting = hasManifest,
                                 !.manifest =
                                     IF hasManifest
                                     THEN Manifest(MaxPage, [p \in Pages |-> stored[p][1]], <<>>, 0)
                                     ELSE NoManifest]
                         ELSE IdleRun]

\* A call that stores the fingerprints read from the page documents in the
\* manifest it was given.
AnalyzeCallStoringFileHash(c) ==
    /\ run[c].pc = "loaded"
    /\ run' = [run EXCEPT
                 ![c].analysis = analyzeChanges(run[c].book, run[c].manifest, vault.docs),
                 ![c].manifest =
                     IF @ = NoManifest THEN @
                     ELSE [@ EXCEPT !.importedPages =
                             [n \in Pages |->
                                IF @[n] # NoEntry /\ ReadFileHash(vault.docs[n]) # <<>>
                                THEN [@[n] EXCEPT !.imageHash = ReadFileHash(vault.docs[n])]
                                ELSE @[n]]],
                 ![c].pc = "analyzed"]
    /\ UNCHANGED <<settings, vault, importInProgress, obs>>

\* A call of analyzeChanges(bookResult, existingManifest).
AnalyzeCall(c) ==
    /\ run[c].pc = "loaded"
    /\ run' = [run EXCEPT ![c].analysis =
                              analyzeChanges(run[c].book, run[c].manifest, vault.docs),
                          ![c].pc = "analyzed"]
    /\ UNCHANGED <<settings, vault, importInProgress, obs>>

NextAnalyze == \E c \in Callers : AnalyzeCall(c)

SpecAnalyze == InitAnalyze /\ [][NextAnalyze]_vars

\* ----------------------------------------------- properties of analyzeChanges
\* The calls of analyzeChanges that have returned.
Analyzed == {c \in Callers : run[c].pc = "analyzed" /\ run[c].analysis # NoAnalysis}

IsSentinel(hash) == StartsWith(hash, RecoveredPrefix) \/ StartsWith(hash, ResetPrefix)

\* How often page number n occurs in a list of page numbers.
Occurrences(list, n) == Cardinality({i \in 1..Len(list) : list[i] = n})

SummaryLists(sm) ==
    sm.newPages \o sm.modifiedPages \o sm.unchangedPages \o sm.deletedPages

\* The class the analysis gave page number n ("none" when it has no record).
ClassOf(analysis, n) ==
    IF \E i \in 1..Len(analysis.changes) : analysis.changes[i].pageNum = n
    THEN analysis.changes[CHOOSE i \in 1..Len(analysis.changes) :
                              analysis.changes[i].pageNum = n].type
    ELSE "none"

DecodedNums(c) == SeqToSet(BookPageNums(run[c].book))

PageOf(c, n) == run[c].book[CHOOSE i \in 1..Len(run[c].book) : run[c].book[i].pageNum = n]

KnownNums(c) == IF run[c].hasExisting THEN ManifestKeys(run[c].manifest) ELSE {}

\* C2 (as claimed): a page present in the decoded book and in the manifest
\* whose manifest imageHash starts with 'recovered-' or 'RESET-' is classified
\* 'modified' and never 'unchanged', whatever the page document contains.
C2_SentinelDominance ==
    \A c \in Analyzed :
       \A n \in DecodedNums(c) \cap KnownNums(c) :
          IsSentinel(run[c].manifest.importedPages[n].imageHash)
             => /\ n \in SeqToSet(run[c].analysis.summary.modifiedPages)
                /\ n \notin SeqToSet(run[c].analysis.summary.unchangedPages)

\* C2: the case of the claim happens: a sentinel page was analysed.
C2_Witness ==
    \E c \in Analyzed :
       \E n \in DecodedNums(c) \cap KnownNums(c) :
          IsSentinel(run[c].manifest.importedPages[n].imageHash)

\* C3: analyzeChanges partitions the page numbers. A decoded page without a
\* manifest entry is 'new'; with a baseline that is a genuine digest it is
\* 'unchanged' when the baseline equals its digest and 'modified' otherwise;
\* a manifest page number without a decoded page is 'deleted'; every page
\* number of the book or the manifest is in exactly one summary list, once,
\* and has exactly one change record.
C3_Partition ==
    \A c \in Analyzed :
       LET a == run[c].analysis
           baseline(n) == IF ReadFileHash(vault.docs[n]) # <<>>
                          THEN ReadFileHash(vault.docs[n])
                          ELSE run[c].manifest.importedPages[n].imageHash
       IN /\ \A n \in DecodedNums(c) \ KnownNums(c) : ClassOf(a, n) = "new"
          /\ \A n \in DecodedNums(c) \cap KnownNums(c) :
                ~IsSentinel(baseline(n)) =>
                   ClassOf(a, n) = IF baseline(n) = PageOf(c, n).image.hash
                                   THEN "unchanged" ELSE "modified"
          /\ \A n \in KnownNums(c) \ DecodedNums(c) : ClassOf(a, n) = "deleted"
          /\ \A n \in Pages :
                LET expected == IF n \in DecodedNums(c) \cup KnownNums(c) THEN 1 ELSE 0
                IN /\ Occurrences(SummaryLists(a.summary), n) = expected
                   /\ Cardinality({i \in 1..Len(a.changes) : a.changes[i].pageNum = n})
                         = expected
          /\ \A n \in DecodedNums(c) \cup KnownNums(c) :
                /\ (ClassOf(a, n) = "new") = (n \in SeqToSet(a.summary.newPages))
                /\ (ClassOf(a, n) = "modified") = (n \in SeqToSet(a.summary.modifiedPages))
                /\ (ClassOf(a, n) = "unchanged") = (n \in SeqToSet(a.summary.unchangedPages))
                /\ (ClassOf(a, n) = "deleted") = (n \in SeqToSet(a.summary.deletedPages))

\* C3: the example of the claim: manifest {1:A, 2:B, 3:..} against a book
\* whose page 1 is A, whose page 2 changed and whose page 3 is absent gives
\* new = [], modified = [2], unchanged = [1], deleted = [3].
C3_Witness ==
    \E c \in Analyzed :
       /\ KnownNums(c) = {1, 2, 3}
       /\ DecodedNums(c) = {1, 2}
       /\ run[c].manifest.importedPages[1].imageHash = hashImageData(Blob("A", TRUE))
       /\ run[c].manifest.importedPages[2].imageHash = hashImageData(Blob("B", TRUE))
       /\ run[c].analysis.summary.newPages = <<>>
       /\ run[c].analysis.summary.modifiedPages = <<2>>
       /\ run[c].analysis.summary.unchangedPages = <<1>>
       /\ run[c].analysis.summary.deletedPages = <<3>>

\* C4: the 'deleted' pages are exactly the manifest page numbers without a
\* decoded page, and summary.totalPages and the number of new, modified and
\* unchanged pages both equal the number of decoded pages.
C4_DeletionDetection ==
    \A c \in Analyzed :
       LET sm == run[c].analysis.summary
       IN /\ SeqToSet(sm.deletedPages) = KnownNums(c) \ DecodedNums(c)
          /\ Len(sm.deletedPages) = Cardinality(KnownNums(c) \ DecodedNums(c))
          /\ sm.totalPages = Len(run[c].book)
          /\ Len(sm.newPages) + Len(sm.modifiedPages) + Len(sm.unchangedPages)
                = Len(run[c].book)

\* C4: a manifest with pages {1,2,3} analysed against a book with pages {1,2}.
C4_Witness ==
    \E c \in Analyzed :
       /\ KnownNums(c) = {1, 2, 3}
       /\ DecodedNums(c) = {1, 2}
       /\ run[c].analysis.summary.deletedPages = <<3>>
       /\ run[c].analysis.summary.totalPages = 2

\* C5: with an absent manifest every decoded page is 'new' and the modified,
\* unchanged and deleted lists are empty.
C5_Bootstrap ==
    \A c \in Analyzed :
       ~run[c].hasExisting =>
          LET a == run[c].analysis
          IN /\ a.summary.newPages = BookPageNums(run[c].book)
             /\ a.summary.modifiedPages = <<>>
             /\ a.summary.unchangedPages = <<>>
             /\ a.summary.deletedPages = <<>>
             /\ Len(a.changes) = Len(run[c].book)
             /\ \A i \in 1..Len(a.changes) :
                   /\ a.changes[i].type = "new"
                   /\ a.changes[i].pageNum = run[c].book[i].pageNum

\* C5: analyzeChanges returned for a book of several pages and no manifest.
C5_Witness ==
    \E c \in Analyzed : ~run[c].hasExisting /\ Len(run[c].book) >= 2

\* ------------------------------------------------------------- the archives
\* The .note files handed to the importer in the modelled runs: a book whose
\* first page has audio and strokes ("base"), the same book re-exported with
\* its last page missing ("short"), and the book with a
\* first bitmap whose digest fails ("unreadable").
Archives == {"base", "short", "unreadable", "gapped"}

ArchiveSource(a) ==
    [i \in 1..RunPages |->
        IF i = 1
        THEN (IF a = "gapped" THEN Missing
              ELSE Source(Blob("A", a # "unreadable"), TRUE, TRUE))
        ELSE IF i = RunPages /\ a = "short" THEN Missing
        ELSE Source(Blob("B", TRUE), FALSE, FALSE)]

WantStrokes(st) == st.outputFormat \in {"svg", "both"}

\* convertNoteToBook (part_001:1703-1882): the decoded pages of an archive.
convertNoteToBook(a, st) == DecodePages(ArchiveSource(a), 1, RunPages, WantStrokes(st))

\* ----------------------------------------------------------------- helpers
Max(a, b) == IF a >= b THEN a ELSE b
Min(a, b) == IF a <= b THEN a ELSE b

\* bookResult.pages.find(p => p.pageNum === n)
HasPage(pages, n) == \E i \in 1..Len(pages) : pages[i].pageNum = n
FindPage(pages, n) == pages[CHOOSE i \in 1..Len(pages) : pages[i].pageNum = n]

\* existingManifest of the run: the in-memory manifest object when one was
\* loaded or recovered (the Executor's `manifest` is the same object), else null.
ExistingManifest(r) == IF r.hasExisting THEN r.manifest ELSE NoManifest

ExistingEntry(r, n) ==
    IF r.hasExisting THEN r.manifest.importedPages[n] ELSE NoEntry

\* new Date() during a run (part_001:1518, 1924): the time of a run is its
\* number, so that a later run has a later time.
Clock == obs.runs

\* addHistoryEntry without the cut to the cap.
addHistoryEntryUncapped(m, entry, st) ==
    IF ~st.keepHistory THEN m ELSE [m EXCEPT !.history = <<entry>> \o @]

\* addHistoryEntry (part_001:1488-1506): newest first, cut to the cap.
addHistoryEntry(m, entry, st) ==
    IF ~st.keepHistory THEN m
    ELSE LET h == <<entry>> \o m.history
         IN [m EXCEPT !.history =
                IF Len(h) > st.maxHistoryEntries
                THEN SubSeq(h, 1, st.maxHistoryEntries) ELSE h]

\* saveManifest (part_001:1602-1629): the file holds the manifest when the
\* direct write or the adapter write succeeds; when both fail the error is
\* logged and the file is left as it was.
saveManifest(v, m, ok) == IF ok THEN [v EXCEPT !.manifestFile = m] ELSE v

\* ------------------------------------------------------------ processNoteFile
\* The guard of processNoteFile (part_001:1632).
AlreadyInProgressNever == FALSE

AlreadyInProgress == importInProgress

\* The positions of a call that has returned. Its locals stay readable until
\* the next call is accepted.
Exited == {"nojszip", "failed", "nothing", "returned"}

\* A call of processNoteFile while an import is in progress: a notice, and
\* the call returns (part_001:1632-1635).
Reject(c) ==
    /\ run[c].pc \in {"idle"} \cup Exited
    /\ AlreadyInProgress
    /\ obs' = [obs EXCEPT !.rejected = @ \cup {c}]
    /\ UNCHANGED <<settings, vault, importInProgress, run>>

\* A call of processNoteFile that passes the guard and sets the flag
\* (part_001:1637).
Accept(c, a) ==
    /\ run[c].pc \in {"idle"} \cup Exited
    /\ ~AlreadyInProgress
    /\ obs.runs < MaxRuns
    /\ importInProgress' = TRUE
    /\ run' = [d \in Callers |->
                 IF d = c THEN [IdleRun EXCEPT !.pc = "accepted", !.archive = a]
                 ELSE IF run[d].pc \in Exited THEN IdleRun ELSE run[d]]
    /\ obs' = [obs EXCEPT !.writes = {}, !.failed = {}, !.saves = <<>>,
                          !.runs = @ + 1, !.touched = FALSE,
                          !.before = vault.manifestFile, !.loaded = NoManifest,
                          !.rejected = {},
                          !.afterClean = (obs.clean = [archive |-> a, settings |-> settings])]
    /\ UNCHANGED <<settings, vault>>

\* The exit of a run: the finally block clears the flag (part_001:1698-1700).
\* The locals stay readable at "returned" until the caller's next request.
ExitRun(c, r, how) ==
    /\ run' = [run EXCEPT ![c] = [r EXCEPT !.pc = how]]
    /\ importInProgress' = FALSE

\* window.JSZip is missing (part_001:1640-1644).
JSZipMissing(c) ==
    /\ run[c].pc = "accepted"
    /\ ExitRun(c, run[c], "nojszip")
    /\ UNCHANGED <<settings, vault, obs>>

\* JSZip.loadAsync or convertNoteToBook throws (part_001:1646-1653, 1695-1697).
DecodeFails(c) ==
    /\ run[c].pc = "accepted"
    /\ ExitRun(c, [run[c] EXCEPT !.error = "decode"], "failed")
    /\ UNCHANGED <<settings, vault, obs>>

\* The archive is opened and decoded (part_001:1646-1653).
Decode(c) ==
    /\ run[c].pc = "accepted"
    /\ run' = [run EXCEPT ![c].book = convertNoteToBook(run[c].archive, settings),
                          ![c].pc = "decoded"]
    /\ UNCHANGED <<settings, vault, importInProgress, obs>>

\* loadManifest (part_001:1655-1667): the manifest of the book folder, or the
\* way to recovery when there is none but the folder exists.
LoadManifest(c) ==
    /\ run[c].pc = "decoded"
    /\ vault.manifestFile # CorruptFile
    /\ run' = [run EXCEPT
                 ![c].manifest = vault.manifestFile,
                 ![c].hasExisting = (vault.manifestFile # NoManifest),
                 ![c].pc = IF vault.manifestFile = NoManifest /\ vault.folder
                           THEN "recover" ELSE "loaded"]
    /\ obs' = [obs EXCEPT !.loaded = vault.manifestFile]
    /\ UNCHANGED <<settings, vault, importInProgress>>

\* A load that copies the manifest file to a backup before parsing it.
LoadManifestFailsAfterBackup(c) ==
    /\ run[c].pc = "decoded"
    /\ vault.manifestFile = CorruptFile
    /\ ExitRun(c, [run[c] EXCEPT !.error = "manifest"], "failed")
    /\ vault' = [vault EXCEPT !.backups = @ + 1]
    /\ UNCHANGED <<settings, obs>>

\* loadManifest of a file that is not valid JSON (part_001:1593-1594):
\* JSON.parse throws, and the exception leaves processNoteFile through its
\* catch (part_001:1695-1697).
LoadManifestFails(c) ==
    /\ run[c].pc = "decoded"
    /\ vault.manifestFile = CorruptFile
    /\ ExitRun(c, [run[c] EXCEPT !.error = "manifest"], "failed")
    /\ UNCHANGED <<settings, vault, obs>>

\* A recovery that digests the image file it finds in the vault.
RecoveredEntryDigest(v, n, mtime) ==
    [imageHash |-> IF v.images[n] # NoFile
                   THEN hashImageData(Blob(v.images[n].bytes, TRUE))
                   ELSE RecoveredHash(FALSE, 0, mtime, n),
     geminiProcessed |-> (v.docs[n].gemini = "done"),
     hasAudio |-> v.docs[n].audio,
     backgroundColor |-> "undefined"]

\* The entry recoverManifestFromExistingFiles builds for one page document
\* (part_001:1532-1564).
RecoveredEntry(v, n, mtime) ==
    [imageHash |-> RecoveredHash(v.images[n] # NoFile,
                                 IF v.images[n] # NoFile THEN BlobSize(v.images[n].bytes) ELSE 0,
                                 mtime, n),
     geminiProcessed |-> (v.docs[n].gemini = "done"),
     hasAudio |-> v.docs[n].audio,
     backgroundColor |-> "undefined"]

RecoveredPages(v) == {n \in Pages : v.docs[n] # NoFile}

\* recoverManifestFromExistingFiles (part_001:1508-1587)
RecoveredManifest(v, mtime, st) ==
    LET found == RecoveredPages(v)
        top == IF found = {} THEN 0 ELSE CHOOSE n \in found : \A k \in found : k <= n
    IN addHistoryEntry(
          Manifest(top, [n \in Pages |-> IF n \in found THEN RecoveredEntry(v, n, mtime)
                                          ELSE NoEntry], <<>>, Clock),
          [action |-> "import", pages |-> SortedKeys(found), summary |-> "recovered"], st)

\* Whether one more failure may be injected in the current run.
CanFail == obs.injected < MaxFailures

\* The outcomes of a write of the manifest file.
SaveOutcomes == IF CanFail THEN BOOLEAN ELSE {TRUE}

\* A recovery that returns the manifest without saving it.
RecoverUnsaved(c) ==
    /\ run[c].pc = "recover"
    /\ \E mtime \in Timestamps :
          IF RecoveredPages(vault) = {}
          THEN run' = [run EXCEPT ![c].pc = "loaded"]
          ELSE run' = [run EXCEPT ![c].manifest = RecoveredManifest(vault, mtime, settings),
                                  ![c].hasExisting = TRUE, ![c].pc = "loaded"]
    /\ UNCHANGED <<settings, vault, importInProgress, obs>>

\* Recovery when no manifest file exists but the book folder does
\* (part_001:1661-1667, 1508-1587): the recovered manifest is saved at once.
Recover(c) ==
    /\ run[c].pc = "recover"
    /\ \E mtime \in Timestamps, ok \in SaveOutcomes :
          IF RecoveredPages(vault) = {}
          THEN /\ ok
               /\ run' = [run EXCEPT ![c].pc = "loaded"]
               /\ UNCHANGED <<vault, obs>>
          ELSE LET m == RecoveredManifest(vault, mtime, settings)
               IN /\ run' = [run EXCEPT ![c].manifest = m, ![c].hasExisting = TRUE,
                                        ![c].pc = "loaded"]
                  /\ vault' = saveManifest(vault, m, ok)
                  /\ obs' = [obs EXCEPT !.saves = Append(@, "recovery"),
                                        !.loaded = IF ok THEN m ELSE @,
                                        !.recovered = @ \/ ok,
                                        !.injected = IF ok THEN @ ELSE @ + 1,
                                        !.failed = @ \cup (IF ok THEN {}
                                                           ELSE {<<0, "recovery">>})]
    /\ UNCHANGED <<settings, importInProgress>>

\* The backup of the manifest file (createManifestBackup, part_001:1470-1485,
\* called at part_001:1669-1673), the analysis step and the opening of the
\* selection dialog (part_001:1675-1682).
Analyze(c) ==
    /\ run[c].pc = "loaded"
    /\ run' = [run EXCEPT
                 ![c].analysis =
                     IF settings.autoDetectChanges /\ run[c].hasExisting
                     THEN analyzeChanges(run[c].book, run[c].manifest, vault.docs)
                     ELSE NoAnalysis,
                 ![c].pc = "dialog"]
    /\ vault' = [vault EXCEPT !.backups =
                    IF run[c].hasExisting /\ settings.createBackups
                       /\ vault.manifestFile # NoManifest
                    THEN @ + 1 ELSE @]
    /\ UNCHANGED <<settings, importInProgress, obs>>

\* ------------------------------------------------------ the selection dialog
\* All sub-sequences of a sequence, in its order (the checked boxes of the
\* 'select' mode, part_001:494-500).
RECURSIVE SubSequences(_)
SubSequences(q) ==
    IF q = <<>> THEN {<<>>}
    ELSE LET rest == SubSequences(Tail(q))
         IN rest \cup {<<Head(q)>> \o t : t \in rest}

\* The 'range' mode (part_001:487-493): i from `from` while i <= to and
\* i <= pages.length.
RangePages(from, to, npages) ==
    LET last == Min(to, npages)
    IN IF from > last THEN <<>> ELSE [i \in 1..(last - from + 1) |-> from + i - 1]

\* What the Import button can hand back (part_001:468-508).
DialogChoices(r) ==
    LET nums == BookPageNums(r.book)
        an == r.analysis
        byAnalysis ==
            IF an = NoAnalysis THEN {}
            ELSE (IF an.summary.newPages # <<>> THEN {an.summary.newPages} ELSE {})
                 \cup (IF an.summary.modifiedPages # <<>>
                       THEN {an.summary.modifiedPages} ELSE {})
                 \cup (IF an.summary.newPages # <<>> \/ an.summary.modifiedPages # <<>>
                       THEN {an.summary.newPages \o an.summary.modifiedPages}
                       ELSE {<<>>})
    IN byAnalysis
       \cup {nums}
       \cup {RangePages(from, to, Len(r.book)) : from \in 1..RunPages, to \in 1..RunPages}
       \cup SubSequences(nums)

\* A run that invokes the Executor whatever the selection is.
AfterDialogAlwaysImports(c, pages) ==
    /\ run' = [run EXCEPT ![c].pagesToImport = pages, ![c].pc = "selected"]
    /\ UNCHANGED importInProgress

\* processNoteFile after the dialog resolved (part_001:1682-1687): an empty
\* selection ends the run.
AfterDialog(c, pages) ==
    IF pages = <<>>
    THEN ExitRun(c, run[c], "nothing")
    ELSE /\ run' = [run EXCEPT ![c].pagesToImport = pages, ![c].pc = "selected"]
         /\ UNCHANGED importInProgress

\* The Import button (part_001:468-508).
ChooseImport(c) ==
    /\ run[c].pc = "dialog"
    /\ \E pages \in DialogChoices(run[c]) : AfterDialog(c, pages)
    /\ UNCHANGED <<settings, vault, obs>>

\* The Cancel button (part_001:510-513).
Cancel(c) ==
    /\ run[c].pc = "dialog"
    /\ AfterDialog(c, <<>>)
    /\ UNCHANGED <<settings, vault, obs>>

\* The modal is closed without a button (Escape, the close box): Modal.close
\* runs, EnhancedImportModal defines no onClose, onChoose is never called and
\* the promise of showEnhancedImportDialog (part_001:1884-1904) stays pending.
Dismiss(c) ==
    /\ run[c].pc = "dialog"
    /\ run' = [run EXCEPT ![c].pc = "dismissed"]
    /\ UNCHANGED <<settings, vault, importInProgress, obs>>

\* ------------------------------------------- importSelectedPagesWithProgress
FreshManifest == Manifest(0, NoEntries, <<>>, Clock)

\* ensureFolder of the book or images folder throws (part_001:1911-1915).
FolderFails(c) ==
    /\ run[c].pc = "selected"
    /\ ExitRun(c, [run[c] EXCEPT !.error = "folder"], "failed")
    /\ UNCHANGED <<settings, vault, obs>>

\* An Executor that drops the entries of the pages the book no longer has.
StartExecutorPruning(c) ==
    /\ run[c].pc = "selected"
    /\ LET r == run[c]
           m == IF r.hasExisting THEN r.manifest ELSE FreshManifest
       IN run' = [run EXCEPT ![c] =
                    [r EXCEPT !.manifest =
                                 [m EXCEPT !.totalPages = Max(@, Len(r.book)),
                                           !.importedPages =
                                               [n \in Pages |->
                                                   IF HasPage(r.book, n) THEN @[n] ELSE NoEntry]],
                              !.summary = EmptySummary(Len(r.pagesToImport)),
                              !.batchStart = 0, !.inflight = {},
                              !.imageFilesToProcess = <<>>,
                              !.pc = "batch"]]
    /\ vault' = [vault EXCEPT !.folder = TRUE]
    /\ obs' = [obs EXCEPT !.clean = NoClean,
                          !.before = IF run[c].hasExisting THEN run[c].manifest
                                     ELSE FreshManifest]
    /\ UNCHANGED <<settings, importInProgress>>

\* The start of the Executor (part_001:1911-1946).
StartExecutor(c) ==
    /\ run[c].pc = "selected"
    /\ LET r == run[c]
           m == IF r.hasExisting THEN r.manifest ELSE FreshManifest
       IN run' = [run EXCEPT ![c] =
                    [r EXCEPT !.manifest = [m EXCEPT !.totalPages = Max(@, Len(r.book))],
                              !.summary = EmptySummary(Len(r.pagesToImport)),
                              !.batchStart = 0, !.inflight = {},
                              !.imageFilesToProcess = <<>>,
                              !.pc = "batch"]]
    /\ vault' = [vault EXCEPT !.folder = TRUE]
    /\ obs' = [obs EXCEPT !.clean = NoClean,
                          !.before = IF run[c].hasExisting THEN run[c].manifest
                                     ELSE FreshManifest]
    /\ UNCHANGED <<settings, importInProgress>>

\* isNew / isModified of a page task (part_001:1962-1963)
IsNew(r, n) == ExistingEntry(r, n) = NoEntry
IsModified(r, n) ==
    IF ExistingEntry(r, n) = NoEntry THEN TRUE
    ELSE ExistingEntry(r, n).imageHash # FindPage(r.book, n).image.hash

\* pagesToImport.slice(batchStart, min(batchStart + batchSize, length))
BatchOf(r, st) ==
    SubSeq(r.pagesToImport, r.batchStart + 1,
           Min(r.batchStart + st.batchSize, Len(r.pagesToImport)))

\* batch.map(async ...) (part_001:1951-1967): every task of the batch runs to
\* its first await: a number without a decoded page returns at once, the
\* others are counted in the summary and are in flight.
StartBatch(c) ==
    /\ run[c].pc = "batch"
    /\ LET r == run[c]
           batch == SelectSeq(BatchOf(r, settings), LAMBDA n : HasPage(r.book, n))
           news == SelectSeq(batch, LAMBDA n : IsNew(r, n))
           mods == SelectSeq(batch, LAMBDA n : ~IsNew(r, n) /\ IsModified(r, n))
           same == SelectSeq(batch, LAMBDA n : ~IsNew(r, n) /\ ~IsModified(r, n))
       IN run' = [run EXCEPT ![c] =
                    [r EXCEPT !.summary = [@ EXCEPT !.newPages = @ \o news,
                                                     !.modifiedPages = @ \o mods,
                                                     !.unchangedPages = @ \o same],
                              !.inflight = SeqToSet(batch),
                              !.pc = "awaitBatch"]]
    /\ UNCHANGED <<settings, vault, importInProgress, obs>>

\* The points at which a page task can fail.
FailPoints == {"none", "audio", "image", "svg", "doc"}

\* Whether a task that failed at `failAt` reaches the manifest update
\* (part_001:2120-2130): an image failure is caught by the inner try/catch
\* (part_001:2078-2081) and the task goes on; the other failures leave the
\* task through the outer catch (part_001:2132-2135).
ReachesManifestUpdate(failAt) == failAt \in {"none", "image"}

\* An artifact written whether or not it exists and needs an update.
ArtifactWriteAlways(exists, needsUpdate) == TRUE

\* Whether a page task writes an artifact (part_001:2019-2027, 2049-2069,
\* 2093-2101): an existing file is replaced only when it needs an update, a
\* missing one is created.
ArtifactWrite(exists, needsUpdate) == ~exists \/ needsUpdate

\* A fingerprint of the image written to the vault: it depends on the
\* background that was applied.
StoredHashComposited(page, st) ==
    [i \in 1..HashWidth |-> IF st.backgroundColor = DefaultBackground THEN "d" ELSE "e"]

\* The imageHash a page task stores (part_001:2123): the fingerprint of the
\* image as it is in the archive.
StoredHash(page, st) == page.image.hash

\* One page task from its first await to its end (part_001:2010-2135).
TaskFinish(c, n, failAt) ==
    /\ run[c].pc = "awaitBatch"
    /\ n \in run[c].inflight
    /\ failAt # "none" => CanFail
    /\ LET r == run[c]
           page == FindPage(r.book, n)
           entry == ExistingEntry(r, n)
           upd == IsNew(r, n) \/ IsModified(r, n)
           hasAudio == page.audio # NoAudio
           backgroundChanged ==
               IF entry = NoEntry THEN TRUE
               ELSE entry.backgroundColor # settings.backgroundColor
           wantsImage == settings.outputFormat \in {"png", "both"}
           audioWrite == hasAudio /\ ArtifactWrite(vault.audios[n] # NoFile, upd)
           imageWrite == /\ wantsImage
                         /\ ArtifactWrite(vault.images[n] # NoFile, upd \/ backgroundChanged)
           svgWrite == /\ settings.outputFormat \in {"svg", "both"}
                       /\ page.stroke
                       /\ ArtifactWrite(vault.svgs[n] # NoFile, upd)
           pastAudio == failAt # "audio"
           pastSvg == pastAudio /\ failAt # "svg"
           completes == ReachesManifestUpdate(failAt)
           placeholder == /\ wantsImage /\ failAt # "image"
                          /\ settings.processWithGemini /\ upd
           content == Doc(IF settings.includeMetadata THEN HashLine(page.image.hash)
                          ELSE NoLine,
                          hasAudio,
                          IF ~wantsImage THEN "none"
                          ELSE IF failAt = "image" THEN "failed" ELSE "embed",
                          IF placeholder THEN "placeholder" ELSE "none")
       IN /\ CASE failAt = "none" -> TRUE
              [] failAt = "audio" -> hasAudio
              [] failAt = "image" -> imageWrite
              [] failAt = "svg" -> svgWrite
              [] failAt = "doc" -> TRUE
          /\ vault' = [vault EXCEPT
                !.audios[n] = IF audioWrite /\ pastAudio THEN [bytes |-> "audio"] ELSE @,
                !.images[n] = IF imageWrite /\ pastAudio
                              THEN (IF failAt = "image" THEN NoFile
                                    ELSE [bytes |-> page.image.blob.bytes,
                                          bg |-> settings.backgroundColor])
                              ELSE @,
                !.svgs[n] = IF svgWrite /\ pastSvg THEN [bytes |-> "svg"] ELSE @,
                !.docs[n] = IF completes THEN content ELSE @]
          /\ run' = [run EXCEPT ![c] =
                [r EXCEPT
                   !.inflight = @ \ {n},
                   !.imageFilesToProcess =
                       IF placeholder /\ pastAudio THEN Append(@, n) ELSE @,
                   !.summary.errors =
                       IF completes THEN @ ELSE Append(@, [page |-> n, error |-> failAt]),
                   !.manifest.importedPages[n] =
                       IF completes
                       THEN Entry(StoredHash(page, settings),
                                  IF @ = NoEntry THEN FALSE ELSE @.geminiProcessed,
                                  hasAudio, settings.backgroundColor)
                       ELSE @]]
          /\ obs' = [obs EXCEPT
                !.writes = @ \cup (IF audioWrite /\ pastAudio THEN {<<n, "audio">>} ELSE {})
                             \cup (IF imageWrite /\ pastAudio THEN {<<n, "image">>} ELSE {})
                             \cup (IF svgWrite /\ pastSvg THEN {<<n, "svg">>} ELSE {}),
                !.injected = IF failAt = "none" THEN @ ELSE @ + 1,
                !.failed = @ \cup (IF failAt = "none" THEN {} ELSE {<<n, failAt>>})]
    /\ UNCHANGED <<settings, importInProgress>>

\* A batch loop that writes the manifest file after every batch.
NextBatchSaving(c) ==
    /\ run[c].pc = "awaitBatch"
    /\ run[c].inflight = {}
    /\ LET next == run[c].batchStart + settings.batchSize
       IN run' = [run EXCEPT ![c].batchStart = next,
                             ![c].pc = IF next < Len(run[c].pagesToImport)
                                       THEN "batch" ELSE "finish"]
    /\ vault' = saveManifest(vault, run[c].manifest, TRUE)
    /\ obs' = [obs EXCEPT !.saves = Append(@, "executor")]
    /\ UNCHANGED <<settings, importInProgress>>

\* A batch loop that does not await the tasks of the batch.
NextBatchNoAwait(c) ==
    /\ run[c].pc = "awaitBatch"
    /\ LET next == run[c].batchStart + settings.batchSize
       IN run' = [run EXCEPT ![c].batchStart = next,
                             ![c].pc = IF next < Len(run[c].pagesToImport)
                                       THEN "batch" ELSE "finish"]
    /\ UNCHANGED <<settings, vault, importInProgress, obs>>

\* Promise.all of the batch has resolved and the pause is over
\* (part_001:2138-2142): the next batch, or the end of the loop.
NextBatch(c) ==
    /\ run[c].pc = "awaitBatch"
    /\ run[c].inflight = {}
    /\ LET next == run[c].batchStart + settings.batchSize
       IN run' = [run EXCEPT ![c].batchStart = next,
                             ![c].pc = IF next < Len(run[c].pagesToImport)
                                       THEN "batch" ELSE "finish"]
    /\ UNCHANGED <<settings, vault, importInProgress, obs>>

\* Whether the run was clean: every decoded page selected, nothing failed.
CleanRun(r, o) ==
    /\ o.failed = {}
    /\ ~o.touched
    /\ r.summary.errors = <<>>
    /\ SeqToSet(BookPageNums(r.book)) \subseteq SeqToSet(r.pagesToImport)

\* createBookIndex throws (part_001:2150-2153): the exception leaves
\* importSelectedPagesWithProgress before the manifest is saved.
IndexFails(c) ==
    /\ run[c].pc = "finish"
    /\ settings.createIndex
    /\ LET r == run[c]
           entry == [action |-> "import", pages |-> r.pagesToImport, summary |-> "imported"]
       IN ExitRun(c, [r EXCEPT !.manifest = addHistoryEntry(@, entry, settings),
                              !.error = "index"], "failed")
    /\ UNCHANGED <<settings, vault, obs>>

\* The end of the batch loop (part_001:2144-2153): the history entry and the
\* index file.
Finish(c) ==
    /\ run[c].pc = "finish"
    /\ LET entry == [action |-> "import", pages |-> run[c].pagesToImport,
                     summary |-> "imported"]
       IN run' = [run EXCEPT ![c].manifest = addHistoryEntry(@, entry, settings),
                             ![c].pc = "save"]
    /\ vault' = [vault EXCEPT !.index = IF settings.createIndex THEN TRUE ELSE @]
    /\ UNCHANGED <<settings, importInProgress, obs>>

\* The Executor's saveManifest (part_001:2155-2156), then either the
\* transcription step or the return of the summary (part_001:2158-2163,
\* 1692-1693).
SaveManifest(c) ==
    /\ run[c].pc = "save"
    /\ \E ok \in SaveOutcomes :
          LET r == run[c]
              o == [obs EXCEPT !.saves = Append(@, "executor"),
                               !.injected = IF ok THEN @ ELSE @ + 1,
                               !.failed = @ \cup (IF ok THEN {} ELSE {<<0, "save">>})]
          IN /\ vault' = saveManifest(vault, r.manifest, ok)
             /\ IF settings.processWithGemini /\ r.imageFilesToProcess # <<>>
                THEN /\ run' = [run EXCEPT ![c].pc = "gemini"]
                     /\ obs' = o
                     /\ UNCHANGED importInProgress
                ELSE /\ ExitRun(c, r, "returned")
                     /\ obs' = [o EXCEPT !.clean =
                                   IF CleanRun(r, o)
                                   THEN [archive |-> r.archive, settings |-> settings]
                                   ELSE NoClean]
    /\ UNCHANGED settings

\* processWithGemini without the Gemini plugin (part_001:2247-2256): a
\* notice, nothing is written.
GeminiUnavailable(c) ==
    /\ run[c].pc = "gemini"
    /\ ExitRun(c, run[c], "returned")
    /\ obs' = [obs EXCEPT !.clean =
                  IF CleanRun(run[c], obs)
                  THEN [archive |-> run[c].archive, settings |-> settings]
                  ELSE NoClean]
    /\ UNCHANGED <<settings, vault>>

\* The page document after a transcription (part_001:2286-2329): the
\* placeholder becomes the transcription, and the frontmatter gets the
\* manifest's hash when it has none.
Transcribed(doc, entry) ==
    IF doc = NoFile THEN doc
    ELSE [doc EXCEPT
            !.gemini = IF @ = "placeholder" THEN "done" ELSE @,
            !.hashLine = IF MatchHash(@) = <<>> /\ @ = NoLine /\ entry # NoEntry
                         THEN <<" ">> \o entry.imageHash ELSE @]

\* processWithGemini (part_001:2244-2354): the pages in `done` are the ones
\* the API returned a text for; the manifest is saved again.
Gemini(c) ==
    /\ run[c].pc = "gemini"
    /\ \E done \in SUBSET SeqToSet(run[c].imageFilesToProcess), ok \in SaveOutcomes :
          LET r == run[c]
              m == [r.manifest EXCEPT !.importedPages =
                      [n \in Pages |->
                          IF n \in done /\ vault.docs[n] # NoFile /\ @[n] # NoEntry
                          THEN [@[n] EXCEPT !.geminiProcessed = TRUE] ELSE @[n]]]
              v == [vault EXCEPT !.docs =
                      [n \in Pages |->
                          IF n \in done THEN Transcribed(@[n], r.manifest.importedPages[n])
                          ELSE @[n]]]
              o == [obs EXCEPT !.saves = Append(@, "gemini"),
                               !.injected = IF ok THEN @ ELSE @ + 1,
                               !.failed = @ \cup (IF ok THEN {} ELSE {<<0, "save">>})]
          IN /\ vault' = saveManifest(v, m, ok)
             /\ ExitRun(c, [r EXCEPT !.manifest = m], "returned")
             /\ obs' = [o EXCEPT !.clean =
                           IF CleanRun(r, o)
                           THEN [archive |-> r.archive, settings |-> settings]
                           ELSE NoClean]
    /\ UNCHANGED settings

\* ----------------------------------------------------------- the environment
Backgrounds == {DefaultBackground, "#F5F5DC"}

\* The user changes the background colour in the settings tab.
ChangeBackground ==
    /\ obs.edits < MaxEdits
    /\ \E bg \in Backgrounds \ {settings.backgroundColor} :
          settings' = [settings EXCEPT !.backgroundColor = bg]
    /\ obs' = [obs EXCEPT !.clean = NoClean, !.touched = TRUE, !.edits = @ + 1]
    /\ UNCHANGED <<vault, importInProgress, run>>

\* The reset-book-hashes command (part_001:1216-1235): it does not look at
\* importInProgress.
ResetBookHashes ==
    /\ obs.edits < MaxEdits
    /\ vault.manifestFile \notin {NoManifest, CorruptFile}
    /\ \E t \in Timestamps :
          vault' = saveManifest(vault,
                      [vault.manifestFile EXCEPT !.importedPages =
                          [n \in Pages |-> IF @[n] = NoEntry THEN NoEntry
                                           ELSE [@[n] EXCEPT !.imageHash = ResetHash(t)]]],
                      TRUE)
    /\ obs' = [obs EXCEPT !.clean = NoClean, !.touched = TRUE, !.edits = @ + 1]
    /\ UNCHANGED <<settings, importInProgress, run>>

\* The manifest file is damaged outside the plugin (a sync conflict, an
\* editor): its content is no longer valid JSON.
CorruptManifest ==
    /\ obs.edits < MaxEdits
    /\ vault.manifestFile \notin {NoManifest, CorruptFile}
    /\ vault' = [vault EXCEPT !.manifestFile = CorruptFile]
    /\ obs' = [obs EXCEPT !.clean = NoClean, !.touched = TRUE, !.edits = @ + 1]
    /\ UNCHANGED <<settings, importInProgress, run>>

\* ------------------------------------------------------- the specification
\* The settings of the modelled runs: the defaults, with the output format,
\* the metadata, the transcription and the batch size varied.
SettingsChoices ==
    { DefaultSettings,
      [DefaultSettings EXCEPT !.outputFormat = "both", !.includeMetadata = FALSE,
                              !.processWithGemini = TRUE, !.batchSize = 1] }

\* A book folder left by an earlier import of the first two pages whose
\* manifest file is gone: the first page's document, image and audio are
\* there, the second page's document is there without an image (its image
\* step had failed).
OrphanVault ==
    [EmptyVault EXCEPT
        !.folder = TRUE,
        !.docs[1] = Doc(HashLine(hashImageData(Blob("A", TRUE))), TRUE, "embed", "none"),
        !.docs[2] = Doc(HashLine(hashImageData(Blob("B", TRUE))), FALSE, "failed", "none"),
        !.images[1] = [bytes |-> "A", bg |-> DefaultBackground],
        !.audios[1] = [bytes |-> "audio"]]

\* The settings and the vault the plugin finds when it is loaded: an empty
\* vault under each of the settings, or the orphaned book under the defaults.
InitialStates ==
    {<<st, EmptyVault>> : st \in SettingsChoices} \cup {<<DefaultSettings, OrphanVault>>}

Init ==
    /\ \E i \in InitialStates : settings = i[1] /\ vault = i[2]
    /\ importInProgress = FALSE
    /\ run = [c \in Callers |-> IdleRun]
    /\ obs = NoObs

\* A request to import: a call of processNoteFile.
Request(c) ==
    \/ Reject(c)
    \/ \E a \in Archives : Accept(c, a)

\* The steps of an accepted call, the user's answer to the dialog included.
Progress(c) ==
    \/ JSZipMissing(c)
    \/ DecodeFails(c)
    \/ Decode(c)
    \/ LoadManifest(c)
    \/ LoadManifestFails(c)
    \/ Recover(c)
    \/ Analyze(c)
    \/ ChooseImport(c)
    \/ Cancel(c)
    \/ Dismiss(c)
    \/ FolderFails(c)
    \/ StartExecutor(c)
    \/ StartBatch(c)
    \/ \E n \in Pages, failAt \in FailPoints : TaskFinish(c, n, failAt)
    \/ NextBatch(c)
    \/ IndexFails(c)
    \/ Finish(c)
    \/ SaveManifest(c)
    \/ GeminiUnavailable(c)
    \/ Gemini(c)

Next ==
    \/ \E c \in Callers : Request(c)
    \/ \E c \in Callers : Progress(c)
    \/ ChangeBackground
    \/ ResetBookHashes
    \/ CorruptManifest

Spec == Init /\ [][Next]_vars

\* The awaited promises of an accepted call settle, and a dialog that is open
\* is closed one way or another: an accepted call keeps taking steps while it
\* has one to take.
FairSpec == Spec /\ \A c \in Callers : WF_vars(Progress(c))

\* -------------------------------------------------- properties of the runs
\* The callers whose call is past the flag check and has not returned.
Active == {c \in Callers : run[c].pc \notin {"idle"} \cup Exited}

\* The positions of the Executor and after it, up to the return.
ExecutorPcs == {"batch", "awaitBatch", "finish", "save", "gemini", "returned"}

\* The page numbers whose task had a failure injected in the current run.
FailedPages == {f[1] : f \in {g \in obs.failed : g[1] \in Pages}}

\* C8: at most one call of processNoteFile is past the flag check at a time,
\* the flag is set for as long as it is, and while the flag is set a further
\* call gets a notice and nothing else: it decodes, loads, writes and queues
\* nothing (its own position, the vault, the settings and the flag are as
\* they were).
C8_Reentrancy ==
    /\ [](Cardinality(Active) <= 1 /\ (Active # {} => importInProgress))
    /\ [][ /\ importInProgress =>
                \A c \in Callers \ Active : run'[c] = run[c]
           /\ obs'.rejected \ obs.rejected # {} =>
                /\ importInProgress
                /\ UNCHANGED <<settings, vault, importInProgress, run>>
                /\ \A k \in DOMAIN obs \ {"rejected"} : obs'[k] = obs[k] ]_vars

\* C8: a call was rejected while the selection dialog of another was open.
C8_Witness ==
    \E c \in Callers :
       /\ run[c].pc = "dialog"
       /\ obs.rejected # {}
       /\ c \notin obs.rejected

\* C9 (as claimed): every accepted run eventually releases the in-progress
\* flag, whatever exit path it takes and whatever way the selection dialog is
\* closed.
C9_FlagReleased == importInProgress ~> ~importInProgress

\* C9: a run whose selection dialog was closed without Import or Cancel.
C9_Witness ==
    \E c \in Callers : run[c].pc = "dismissed" /\ importInProgress

\* The selected page numbers of a run that have a decoded page.
SelectedPages(c) == SeqToSet(run[c].pagesToImport) \cap DecodedNums(c)

\* Whether the run of c holds the entry of a completed import of page n.
EntryUpdated(c, n) ==
    /\ run[c].manifest.importedPages[n] # NoEntry
    /\ run[c].manifest.importedPages[n].imageHash = PageOf(c, n).image.hash
    /\ vault.docs[n] # NoFile

\* C7 (as claimed): a failure while materializing a page's audio, image or
\* SVG artifact or its page document is recorded in summary.errors with the
\* page number, and the page's manifest entry stays as it was before the run.
C7_FailedPageRecorded ==
    \A c \in Callers :
       run[c].pc \in ExecutorPcs =>
          \A n \in FailedPages :
             /\ \E i \in 1..Len(run[c].summary.errors) : run[c].summary.errors[i].page = n
             /\ run[c].manifest.importedPages[n] = obs.before.importedPages[n]

\* C7: the image step of a page task failed in a run that went on to its end.
C7_Witness ==
    \E c \in Callers :
       /\ run[c].pc = "returned"
       /\ \E n \in Pages : <<n, "image">> \in obs.failed

\* C6 (as claimed): when the processing of one selected page fails, every
\* other selected page is processed to completion and gets its manifest entry
\* updated, and the summary the run returns has one error entry, naming the
\* failed page.
C6_PartialFailureIsolation ==
    \A c \in Callers :
       (run[c].pc = "returned" /\ Cardinality(FailedPages) = 1) =>
          /\ \A m \in SelectedPages(c) \ FailedPages : EntryUpdated(c, m)
          /\ Len(run[c].summary.errors) = 1
          /\ run[c].summary.errors[1].page \in FailedPages

\* C6: a run of two selected pages returned after the task of one failed.
C6_Witness ==
    \E c \in Callers :
       /\ run[c].pc = "returned"
       /\ Cardinality(SelectedPages(c)) = 2
       /\ Cardinality(FailedPages) = 1

BeforeExecutorSave == {<<>>, <<"recovery">>}

AfterAnalysis == {"dialog", "dismissed", "selected", "nothing"} \cup ExecutorPcs

\* A call that was accepted right after a run that imported every page of
\* the same archive without a failure, under the same settings, with nothing
\* edited in between or since.
SecondRun(c) ==
    /\ run[c].pc \in AfterAnalysis
    /\ obs.afterClean
    /\ ~obs.touched
    /\ obs.failed = {}

\* C1 (as claimed): a second run on the same unmodified archive with unchanged
\* settings, after a run that imported every page without errors, has
\* analyzeChanges classify every decoded page 'unchanged' (none new, modified
\* or deleted) and rewrites no image, audio or SVG artifact.
C1_Idempotence ==
    \A c \in Callers :
       SecondRun(c) =>
          /\ run[c].analysis # NoAnalysis
          /\ run[c].analysis.summary.unchangedPages = BookPageNums(run[c].book)
          /\ run[c].analysis.summary.newPages = <<>>
          /\ run[c].analysis.summary.modifiedPages = <<>>
          /\ run[c].analysis.summary.deletedPages = <<>>
          /\ obs.writes = {}

\* C1: the second run on the same archive has imported all its pages again.
C1_Witness ==
    \E c \in Callers :
       /\ SecondRun(c)
       /\ run[c].pc = "returned"
       /\ run[c].pagesToImport = BookPageNums(run[c].book)
       /\ Len(run[c].book) = 2

\* The positions of the Executor before its saveManifest has returned.
BeforeSave == {"batch", "awaitBatch", "finish", "save"}

\* C11: while the Executor's batches are running and until its saveManifest,
\* the manifest file is what the run loaded (or recovered and wrote before
\* the analysis): the page updates exist in memory only, so a crash there
\* leaves no partly updated manifest file. Writes of the user's own commands
\* during the run are not the run's.
C11_CrashSafe ==
    \A c \in Callers :
       (run[c].pc \in BeforeSave /\ ~obs.touched) => vault.manifestFile = obs.loaded

\* C11: all batches of a run that loaded a manifest are done, its pages are
\* updated in memory and the file still holds what was loaded.
C11_Witness ==
    \E c \in Callers :
       /\ run[c].pc = "finish"
       /\ ~obs.touched
       /\ obs.loaded \notin {NoManifest, CorruptFile}
       /\ \E n \in Pages : run[c].manifest.importedPages[n] # obs.loaded.importedPages[n]
       /\ vault.manifestFile = obs.loaded

\* ------------------------------------------- addHistoryEntry on bounded inputs

\* The manifest is run[1].manifest; obs.runs is the clock that stamps the
\* entries (date, part_001:1496) and obs.saves lists the entries handed to
\* addHistoryEntry, oldest first.
HistorySettings ==
    {[DefaultSettings EXCEPT !.maxHistoryEntries = k, !.keepHistory = kh] :
        k \in 1..MaxHistoryEntries, kh \in BOOLEAN}

\* The page lists of the history entries (part_001:1573, 2148).
HistoryPages == {RangePages(1, k, MaxPage) : k \in 0..RunPages}

InitHistory ==
    /\ settings \in HistorySettings
    /\ vault = EmptyVault
    /\ importInProgress = FALSE
    /\ obs = NoObs
    /\ run = [c \in Callers |-> IF c = 1 THEN [IdleRun EXCEPT !.manifest = FreshManifest]
                                 ELSE IdleRun]

\* One call of addHistoryEntry (part_001:1488-1506).
AddHistory ==
    /\ obs.runs < MaxAppends
    /\ \E pages \in HistoryPages :
          LET entry == [date |-> obs.runs + 1, action |-> "import", pages |-> pages,
                        summary |-> "imported"]
          IN /\ run' = [run EXCEPT ![1].manifest = addHistoryEntry(@, entry, settings)]
             /\ obs' = [obs EXCEPT !.runs = @ + 1, !.saves = Append(@, entry)]
    /\ UNCHANGED <<settings, vault, importInProgress>>

NextHistory == AddHistory

SpecHistory == InitHistory /\ [][NextHistory]_vars

\* The last k elements of a sequence, last one first.
NewestFirst(q, k) == [i \in 1..Min(k, Len(q)) |-> q[Len(q) - i + 1]]

\* C12: with keepHistory enabled, after any sequence of addHistoryEntry calls
\* the history is the newest maxHistoryEntries entries handed in, newest
\* first: never more than the cap, exactly the cap once that many were
\* appended, and the entries dropped are the oldest.
C12_HistoryCap ==
    settings.keepHistory =>
       LET h == run[1].manifest.history
       IN /\ Len(h) <= settings.maxHistoryEntries
          /\ Len(obs.saves) >= settings.maxHistoryEntries
                => Len(h) = settings.maxHistoryEntries
          /\ h = NewestFirst(obs.saves, settings.maxHistoryEntries)

\* C12: more entries were appended than the cap allows, so some were dropped.
C12_Witness ==
    /\ settings.keepHistory
    /\ Len(obs.saves) > settings.maxHistoryEntries
    /\ Len(run[1].manifest.history) = settings.maxHistoryEntries
    /\ run[1].manifest.history[1].date = obs.runs

\* Whether page n of the run of c is selected, decoded, neither new nor
\* modified, and recorded with the current background setting.
UnchangedPage(c, n) ==
    /\ run[c].pc \in BeforeSave
    /\ n \in SelectedPages(c)
    /\ ~IsNew(run[c], n)
    /\ ~IsModified(run[c], n)
    /\ ExistingEntry(run[c], n).backgroundColor = settings.backgroundColor

\* The artifact unless it is missing.
Kept(old, new) == old # NoFile => new = old

\* C13: no step of the Executor deletes, replaces or modifies an existing
\* image, audio or SVG artifact of a selected page that is neither new nor
\* modified and whose recorded background equals the background setting.
C13_UnchangedArtifactsUntouched ==
    [][\A c \in Callers : \A n \in Pages :
          UnchangedPage(c, n) =>
             /\ Kept(vault.images[n], vault'.images[n])
             /\ Kept(vault.audios[n], vault'.audios[n])
             /\ Kept(vault.svgs[n], vault'.svgs[n])]_vars

\* C13: the task of such a page has run in a run that writes images and
\* SVGs, its artifacts exist and the run wrote none of them.
C13_Witness ==
    \E c \in Callers : \E n \in Pages :
       /\ UnchangedPage(c, n)
       /\ run[c].pc = "finish"
       /\ settings.outputFormat = "both"
       /\ vault.images[n] # NoFile
       /\ vault.svgs[n] # NoFile
       /\ vault.audios[n] # NoFile
       /\ obs.failed = {}
       /\ \A k \in {"image", "audio", "svg"} : <<n, k>> \notin obs.writes

\* ------------------------------------------------ the embedded fingerprint
RECURSIVE UpToQuote(_)
UpToQuote(s) == IF s = <<>> \/ Head(s) = "\"" THEN <<>>
                ELSE <<Head(s)>> \o UpToQuote(Tail(s))

\* The fingerprint a page document carries after "original_image_hash:"
\* (part_001:1981): the text between the quotes, <<>> without the line.
EmbeddedHash(line) ==
    LET t == SkipSpaces(line)
    IN IF t = <<>> THEN <<>>
       ELSE IF Head(t) = "\"" THEN UpToQuote(Tail(t)) ELSE UpToQuote(t)

\* The change record the analysis holds for page number n.
RecordOf(analysis, n) ==
    analysis.changes[CHOOSE i \in 1..Len(analysis.changes) :
                        analysis.changes[i].pageNum = n]

\* The manifest pages of the run of c whose document carries a fingerprint.
Embedding(c) ==
    {n \in KnownNums(c) : /\ vault.docs[n] # NoFile
                           /\ EmbeddedHash(vault.docs[n].hashLine) # <<>>}

\* C14 (as claimed): for every manifest page whose page document carries an
\* embedded original_image_hash, analyzeChanges takes that fingerprint as the
\* baseline: it is the oldHash of the page's change record, and a decoded
\* page is 'unchanged' exactly when its fingerprint equals it.
C14_EmbeddedBaseline ==
    \A c \in Analyzed :
       \A n \in Embedding(c) :
          LET embedded == EmbeddedHash(vault.docs[n].hashLine)
              rec == RecordOf(run[c].analysis, n)
          IN /\ rec.oldHash = embedded
             /\ n \in DecodedNums(c) =>
                   (rec.type = "unchanged") = (embedded = PageOf(c, n).image.hash)

\* C14: a page was analysed whose document carries a fingerprint that
\* differs from the manifest's.
C14_Witness ==
    \E c \in Analyzed :
       \E n \in Embedding(c) \cap DecodedNums(c) :
          EmbeddedHash(vault.docs[n].hashLine) # run[c].manifest.importedPages[n].imageHash

\* The part of C14 that holds: an embedded 32-hex digest is the baseline.
C14_DigestBaseline ==
    \A c \in Analyzed :
       \A n \in Embedding(c) :
          LET embedded == EmbeddedHash(vault.docs[n].hashLine)
              rec == RecordOf(run[c].analysis, n)
          IN (\A i \in 1..Len(embedded) : embedded[i] \in HexChars) =>
                /\ rec.oldHash = embedded
                /\ n \in DecodedNums(c) =>
                      (rec.type = "unchanged") = (embedded = PageOf(c, n).image.hash)

\* ------------------------------------------------ analyzeChanges as a function
Reverse(q) == [i \in 1..Len(q) |-> q[Len(q) - i + 1]]

C16_BatchesSequential ==
    \A c \in Callers :
       /\ Cardinality(run[c].inflight) <= settings.batchSize
       /\ run[c].pc = "awaitBatch" =>
             run[c].inflight \subseteq SeqToSet(BatchOf(run[c], settings))
       /\ run[c].pc # "awaitBatch" => run[c].inflight = {}

\* C16: the tasks of a batch after the first are in flight, as many as
\* batchSize allows.
C16_Witness ==
    \E c \in Callers :
       /\ run[c].pc = "awaitBatch"
       /\ run[c].batchStart > 0
       /\ Cardinality(run[c].inflight) = settings.batchSize

\* C17: the manifest recoverManifestFromExistingFiles returns (and writes)
\* has one entry per page document of the book folder, and the imageHash of
\* each starts with 'recovered-', with or without an image file of the page:
\* never a digest.
C17_RecoveredSentinel ==
    [][\A c \in Callers :
          (run[c].pc = "recover" /\ run'[c].pc = "loaded" /\ run'[c].hasExisting) =>
             LET m == run'[c].manifest
             IN /\ ManifestKeys(m) = RecoveredPages(vault)
                /\ \A n \in ManifestKeys(m) :
                      StartsWith(m.importedPages[n].imageHash, RecoveredPrefix)
                /\ vault'.manifestFile \in {vault.manifestFile, m}]_vars

\* C17: a recovery has returned entries for a page with an image file and for
\* a page without one.
C17_Witness ==
    \E c \in Callers :
       /\ run[c].pc = "loaded"
       /\ run[c].hasExisting
       /\ obs.saves = <<"recovery">>
       /\ \E n, k \in ManifestKeys(run[c].manifest) :
             /\ vault.images[n] # NoFile
             /\ vault.images[k] = NoFile
             /\ StartsWith(run[c].manifest.importedPages[n].imageHash, RecoveredPrefix)
             /\ StartsWith(run[c].manifest.importedPages[k].imageHash,
                           RecoveredPrefix \o UnknownWord)

\* A step in which recoverManifestFromExistingFiles returns to the run of c.
RecoveryReturns(c) == run[c].pc = "recover" /\ run'[c].pc = "loaded"

\* A recovery that found no page document returns absent and writes nothing.
RecoveryOfNothing(c) ==
    (RecoveryReturns(c) /\ RecoveredPages(vault) = {}) =>
       /\ ~run'[c].hasExisting
       /\ run'[c].manifest = NoManifest
       /\ vault' = vault

\* Once a recovered manifest is in the manifest file no run enters recovery.
NoSecondRecovery(c) == (obs.recovered /\ run[c].pc # "recover") => run'[c].pc # "recover"

C19_SaveFailureVisible ==
    \A c \in Callers :
       (run[c].pc = "returned" /\ <<0, "save">> \in obs.failed) =>
          /\ run[c].summary.errors # <<>>
          /\ ~obs.touched => vault.manifestFile = run[c].manifest

\* C19: a run has returned its summary after a saveManifest call whose two
\* write attempts failed.
C19_Witness ==
    \E c \in Callers :
       /\ run[c].pc = "returned"
       /\ <<0, "save">> \in obs.failed
       /\ obs.saves = <<"executor">>

\* The positions of processNoteFile up to the return of loadManifest.
BeforeLoaded == {"accepted", "decoded"}

\* The failures of opening or decoding the archive and of parsing the
\* manifest file.
InputFailures == {"decode", "manifest"}

\* C20: a run whose archive cannot be opened or decoded, or whose manifest
\* file is not valid JSON, ends there with that one failure; none of its
\* steps up to that point changes the vault (folder, backups, page documents,
\* artifacts, index, manifest file), and it has written no artifact and
\* saved no manifest when it ends.
C20_AbortBeforeWrites ==
    [][\A c \in Callers :
          /\ (run[c].pc \in BeforeLoaded /\ run'[c] # run[c]) => vault' = vault
          /\ (run'[c].pc = "failed" /\ run'[c].error \in InputFailures /\ run'[c] # run[c]) =>
                /\ run[c].pc \in BeforeLoaded
                /\ run[c].error = "none"
                /\ ~importInProgress'
                /\ obs'.writes = {}
                /\ obs'.saves = <<>>
          /\ (run[c].pc = "decoded" /\ vault.manifestFile = CorruptFile /\ run'[c] # run[c]) =>
                (run'[c].pc = "failed" /\ run'[c].error = "manifest")]_vars

\* C20: a run on a book that was imported before has ended at the manifest
\* file that is not valid JSON.
C20_Witness ==
    \E c \in Callers :
       /\ run[c].pc = "failed"
       /\ run[c].error = "manifest"
       /\ vault.manifestFile = CorruptFile
       /\ \E n \in Pages : vault.docs[n] # NoFile
       /\ obs.writes = {}

\* C21 (as claimed): once importSelectedPagesWithProgress has started no
\* failure aborts the run: the only runs that end with a failure are those
\* that failed on the archive or the manifest file, before it; a failure to
\* ensure a folder or to write the index is absorbed.
C21_ExecutorNeverAborts ==
    \A c \in Callers : run[c].pc = "failed" => run[c].error \in InputFailures

\* C21: a run has ended with a failure of the index after its page tasks
\* wrote a page document, and the manifest file lacks its manifest.
C21_Witness ==
    \E c \in Callers :
       /\ run[c].pc = "failed"
       /\ run[c].error = "index"
       /\ \E n \in SelectedPages(c) : EntryUpdated(c, n)
       /\ vault.manifestFile # run[c].manifest
       /\ obs.saves = <<>>

\* The place of each position of a run in the order of its phases: decode,
\* manifest load or recovery, analysis and selection, execution, and the end
\* of the Executor.
PhaseRank(pc) ==
    CASE pc = "accepted" -> 1
      [] pc = "decoded" -> 2
      [] pc = "recover" -> 3
      [] pc = "loaded" -> 4
      [] pc \in {"dialog", "dismissed"} -> 5
      [] pc = "selected" -> 6
      [] pc \in {"batch", "awaitBatch"} -> 7
      [] pc \in {"finish", "save", "gemini"} -> 8
      [] OTHER -> 0

\* A step of the run of c that neither starts nor ends it.
InnerStep(c) ==
    /\ run'[c] # run[c]
    /\ PhaseRank(run[c].pc) > 0
    /\ PhaseRank(run'[c].pc) > 0

\* The phases of a run up to the end of the batches occur in their order.
C22_OrderUpToExecution ==
    [][\A c \in Callers :
          InnerStep(c) => PhaseRank(run'[c].pc) >= PhaseRank(run[c].pc)]_vars

\* C22 (as claimed): the phases of a run occur in the order decode, manifest
\* load or recovery, analysis, selection, execution, manifest persist, index
\* build: the index file is written only after the Executor has saved the
\* manifest, and a run that fails on the index has saved its manifest.
C22_PersistBeforeIndex ==
    [][\A c \in Callers :
          /\ InnerStep(c) => PhaseRank(run'[c].pc) >= PhaseRank(run[c].pc)
          /\ (run[c].pc = "finish" /\ run'[c].pc = "save" /\ settings.createIndex) =>
                /\ vault'.index
                /\ "executor" \in SeqToSet(obs.saves)
          /\ (run'[c].pc = "failed" /\ run'[c].error = "index" /\ run[c].pc = "finish") =>
                "executor" \in SeqToSet(obs.saves)]_vars

\* C22: the index file of a run is written and its manifest is not saved yet.
C22_Witness ==
    \E c \in Callers :
       /\ run[c].pc = "save"
       /\ settings.createIndex
       /\ vault.index
       /\ obs.saves = <<>>
       /\ obs.runs = 1
       /\ vault.manifestFile = NoManifest

\* The positions of processNoteFile up to the selection dialog.
BeforeSelection == {"accepted", "decoded", "recover", "loaded", "dialog"}

\* A step of the run of c up to its dialog writes no page document, artifact
\* or index and creates no folder.
NoImportWrite(c) ==
    (run[c].pc \in BeforeSelection /\ run'[c] # run[c]) =>
       /\ vault'.docs = vault.docs
       /\ vault'.images = vault.images
       /\ vault'.audios = vault.audios
       /\ vault'.svgs = vault.svgs
       /\ vault'.index = vault.index
       /\ vault'.folder = vault.folder

\* The dialog resolves with an empty selection exactly when the run ends as
\* 'nothing to do', without an error; the Executor runs on selections that
\* are not empty only.
EmptySelectionEnds(c) ==
    /\ (run[c].pc = "dialog" /\ run'[c].pc \notin {"dialog", "dismissed"}) =>
          /\ (run'[c].pagesToImport = <<>>) = (run'[c].pc = "nothing")
          /\ run'[c].pc \in {"nothing", "selected"}
          /\ run'[c].error = "none"
    /\ run'[c].pc \in {"selected", "batch", "awaitBatch", "finish", "save", "gemini"} =>
          run'[c].pagesToImport # <<>>

\* C23 (as claimed): an empty selection ends the run as 'nothing to do'
\* without an error and without the Executor; the run has written no page
\* document, artifact or index, and no manifest with page entries or a
\* history entry: the manifest file is as it was when the run started.
C23_EmptySelectionWritesNothing ==
    [][\A c \in Callers :
          /\ NoImportWrite(c)
          /\ EmptySelectionEnds(c)
          /\ (run'[c].pc = "nothing" /\ run[c].pc = "dialog") =>
                /\ obs'.writes = {}
                /\ obs'.saves = <<>>
                /\ ~obs'.touched => vault'.manifestFile = obs'.before]_vars

\* C23 (amended): as claimed, except that a run that recovered the manifest
\* has written it, page entries and the history entry of the recovery
\* included, before the dialog opened; an empty selection does not undo it.
C23_EmptySelectionWritesNoImport ==
    [][\A c \in Callers :
          /\ NoImportWrite(c)
          /\ EmptySelectionEnds(c)
          /\ (run'[c].pc = "nothing" /\ run[c].pc = "dialog") =>
                /\ obs'.writes = {}
                /\ obs'.saves \in {<<>>, <<"recovery">>}
                /\ ~obs'.touched =>
                      vault'.manifestFile =
                         IF obs'.saves = <<"recovery">> /\ obs'.failed = {}
                         THEN run'[c].manifest ELSE obs'.before
                /\ obs'.saves = <<>> => run'[c].manifest = obs'.loaded]_vars

\* C23: a run on a book that was imported before has ended with an empty
\* selection.
C23_Witness ==
    \E c \in Callers :
       /\ run[c].pc = "nothing"
       /\ run[c].hasExisting
       /\ obs.saves = <<>>
       /\ ~obs.touched
       /\ vault.manifestFile = obs.before
       /\ \E n \in Pages : vault.docs[n] # NoFile

\* ------------------------------------------------- the stored fingerprints
\* The manifests there are: the manifest file and the manifests of the runs.
ManifestsHeld ==
    {m \in {vault.manifestFile} \cup {run[c].manifest : c \in Callers} :
        m \notin {NoManifest, CorruptFile}}

\* The page entries of the manifests there are.
EntriesHeld == {m.importedPages[n] : n \in Pages, m \in ManifestsHeld} \ {NoEntry}

IsDigest(hash) == \E b \in ImageBytes : hash = Substring0(Sha256Hex(b), HashWidth)

IsFallback(hash) == StartsWith(hash, FallbackPrefix)

\* A page task that writes the entry of page n stores the fingerprint of the
\* decoded page, and a change of the background setting changes no manifest.
StoresOriginal(c) ==
    /\ \A n \in Pages :
          (/\ run[c].pc = "awaitBatch"
           /\ run'[c].pc = "awaitBatch"
           /\ run'[c].manifest.importedPages[n] # run[c].manifest.importedPages[n]) =>
             /\ n \in DecodedNums(c)
             /\ run'[c].manifest.importedPages[n].imageHash = PageOf(c, n).image.hash
    /\ settings'.backgroundColor # settings.backgroundColor =>
          (run' = run /\ vault' = vault)

\* C24 (as claimed): the imageHash of every page entry of every manifest is
\* the digest of the original image bytes of a decoded page or a
\* 'recovered-' / 'RESET-' sentinel; a page task stores the digest of the
\* page it imported, whatever the background setting is.
C24_HashOfOriginal ==
    [][/\ \A e \in EntriesHeld' : IsDigest(e.imageHash) \/ IsSentinel(e.imageHash)
       /\ \A c \in Callers : StoresOriginal(c)]_vars

\* What hashImageData can return for the original image of a page.
OriginalFingerprints ==
    {hashImageData(Blob(b, r)) : b \in ImageBytes, r \in BOOLEAN}

\* C24 (amended): the imageHash of every page entry of every manifest is the
\* fingerprint hashImageData gives the original image of a decoded page (its
\* digest, or the 'fallback-' value when the digest failed) or a
\* 'recovered-' / 'RESET-' sentinel; a page task stores the fingerprint of
\* the page it imported, whatever the background setting is.
C24_FingerprintOfOriginal ==
    [][/\ \A e \in EntriesHeld' :
             \/ e.imageHash \in OriginalFingerprints
             \/ IsSentinel(e.imageHash)
       /\ \A c \in Callers : StoresOriginal(c)]_vars

\* C24: a page imported before was imported again under another background:
\* its image was written with that background and its entry has the
\* fingerprint it had.
C24_Witness ==
    \E c \in Callers : \E n \in SelectedPages(c) :
       /\ run[c].pc = "finish"
       /\ obs.before \notin {NoManifest, CorruptFile}
       /\ obs.before.importedPages[n] # NoEntry
       /\ obs.before.importedPages[n].backgroundColor = DefaultBackground
       /\ run[c].manifest.importedPages[n].backgroundColor # DefaultBackground
       /\ <<n, "image">> \in obs.writes
       /\ vault.images[n] # NoFile
       /\ vault.images[n].bg # DefaultBackground
       /\ run[c].manifest.importedPages[n].imageHash = obs.before.importedPages[n].imageHash
       /\ IsDigest(run[c].manifest.importedPages[n].imageHash)

\* C25 (as claimed): a fallback fingerprint never equals a genuine digest,
\* and analyzeChanges never classifies a decoded page whose fingerprint is a
\* fallback value as 'unchanged', which it could only do because the
\* baseline is an equal fallback fingerprint.
C25_FallbackNeverMatches ==
    /\ \A b1, b2 \in ImageBytes :
          hashImageData(Blob(b1, FALSE)) # hashImageData(Blob(b2, TRUE))
    /\ \A c \in Analyzed :
          \A n \in DecodedNums(c) \cap KnownNums(c) :
             IsFallback(PageOf(c, n).image.hash) => ClassOf(run[c].analysis, n) # "unchanged"

\* C25: a decoded page with a fallback fingerprint was analysed against a
\* baseline that is a fallback fingerprint.
C25_Witness ==
    \E c \in Analyzed :
       \E n \in DecodedNums(c) \cap KnownNums(c) :
          /\ IsFallback(PageOf(c, n).image.hash)
          /\ IsFallback(RecordOf(run[c].analysis, n).oldHash)

\* The part of C25 that holds: no fallback fingerprint is a genuine digest.
C25_FallbackIsNoDigest ==
    \A b \in ImageBytes :
       /\ IsFallback(hashImageData(Blob(b, FALSE)))
       /\ ~IsDigest(hashImageData(Blob(b, FALSE)))
       /\ ~IsFallback(hashImageData(Blob(b, TRUE)))

\* C26 (as claimed): the page numbers of a decoded book are 1..n for its n
\* pages, in order, also when the bitmap of a page was not found and the
\* page was dropped.
C26_PageNumbersContiguous ==
    \A c \in Callers :
       BookPageNums(run[c].book) = [i \in 1..Len(run[c].book) |-> i]

\* C26: a book was decoded from an archive in which the bitmap of a page
\* before the last one was not found.
C26_Witness ==
    \E c \in Analyzed :
       /\ run[c].book # <<>>
       /\ \E n \in Pages : n \notin DecodedNums(c) /\ \E k \in DecodedNums(c) : k > n

\* The part of C26 that holds: the page numbers are unique and ascending.
C26_PageNumbersAscending ==
    \A c \in Callers :
       \A i, j \in 1..Len(run[c].book) :
          i < j => run[c].book[i].pageNum < run[c].book[j].pageNum

\* --------------------------------------------- ensureFolder under concurrency
\* Two callers ensure the same path of FolderDepth segments (two page tasks
\* of a batch ensuring the audio folder, part_001:2012). vault.folders is the
\* set of the path's prefixes that exist, by their number of segments;
\* run[c].seg is the segment the loop of caller c is at.
Segments == 1..FolderDepth

\* The prefixes of the path that exist before the calls: the path down to
\* some segment.
InitFolder ==
    /\ settings = DefaultSettings
    /\ importInProgress = TRUE
    /\ obs = NoObs
    /\ \E k \in 0..FolderDepth : vault = [folders |-> 1..k]
    /\ run = [c \in Callers |-> [pc |-> "check", seg |-> 1]]

\* getAbstractFileByPath(normalizedPath) for the current segment
\* (part_001:2450-2455): the loop goes on when the folder exists and ends
\* after the last segment.
FolderCheck(c) ==
    /\ run[c].pc = "check"
    /\ run' = [run EXCEPT ![c] =
                 IF run[c].seg > FolderDepth THEN [@ EXCEPT !.pc = "done"]
                 ELSE IF run[c].seg \in vault.folders THEN [@ EXCEPT !.seg = @ + 1]
                 ELSE [@ EXCEPT !.pc = "create"]]
    /\ UNCHANGED <<settings, vault, importInProgress, obs>>

\* await vault.createFolder(normalizedPath) (part_001:2456-2458): it rejects
\* when the folder exists by now, and it may reject for another reason.
FolderCreate(c) ==
    /\ run[c].pc = "create"
    /\ \E ok \in SaveOutcomes :
          IF run[c].seg \in vault.folders
          THEN /\ ok
               /\ run' = [run EXCEPT ![c].pc = "catch"]
               /\ obs' = [obs EXCEPT !.failed = @ \cup {<<c, "exists">>}]
               /\ UNCHANGED vault
          ELSE IF ok
          THEN /\ vault' = [vault EXCEPT !.folders = @ \cup {run[c].seg}]
               /\ run' = [run EXCEPT ![c].seg = @ + 1, ![c].pc = "check"]
               /\ UNCHANGED obs
          ELSE /\ run' = [run EXCEPT ![c].pc = "catch"]
               /\ obs' = [obs EXCEPT !.failed = @ \cup {<<c, "create">>},
                                     !.injected = @ + 1]
               /\ UNCHANGED vault
    /\ UNCHANGED <<settings, importInProgress>>

\* A catch block that throws the error on without looking again.
FolderCatchRethrows(c) ==
    /\ run[c].pc = "catch"
    /\ run' = [run EXCEPT ![c].pc = "threw"]
    /\ UNCHANGED <<settings, vault, importInProgress, obs>>

\* The catch block (part_001:2459-2466): the error is dropped when the
\* folder exists now and thrown on when it does not.
FolderCatch(c) ==
    /\ run[c].pc = "catch"
    /\ run' = [run EXCEPT ![c] =
                 IF run[c].seg \in vault.folders
                 THEN [@ EXCEPT !.seg = @ + 1, !.pc = "check"]
                 ELSE [@ EXCEPT !.pc = "threw"]]
    /\ UNCHANGED <<settings, vault, importInProgress, obs>>

NextFolder == \E c \in Callers : FolderCheck(c) \/ FolderCreate(c) \/ FolderCatch(c)

SpecFolder == InitFolder /\ [][NextFolder]_vars

\* C27: ensureFolder throws only from its catch block and only when the
\* folder of the segment does not exist then; a create that was rejected
\* because the folder exists (it was there, or another caller made it after
\* the check) is passed over; a call that returns leaves the whole path in
\* existence, and no folder ever disappears.
C27_EnsureFolderTolerant ==
    [][\A c \in Callers :
          /\ (run'[c].pc = "threw" /\ run[c].pc # "threw") =>
                (run[c].pc = "catch" /\ run[c].seg \notin vault.folders)
          /\ (run[c].pc = "catch" /\ run[c].seg \in vault.folders /\ run'[c] # run[c]) =>
                (run'[c].pc = "check" /\ run'[c].seg = run[c].seg + 1)
          /\ (run[c].pc = "check" /\ run[c].seg \in vault.folders /\ run'[c] # run[c]) =>
                (run'[c].pc = "check" /\ vault' = vault)
          /\ run'[c].pc = "done" => vault'.folders = Segments
          /\ vault.folders \subseteq vault'.folders]_vars

\* C27: a call has returned although one of its creates was rejected because
\* the other caller had made the folder after the check.
C27_Witness ==
    \E c \in Callers :
       /\ run[c].pc = "done"
       /\ <<c, "exists">> \in obs.failed
       /\ vault.folders = Segments

\* The pages the run of c has imported with metadata and without a failure,
\* seen when its batches are done.
ImportedWithMetadata(c) ==
    {n \in SelectedPages(c) : /\ run[c].pc = "finish"
                               /\ settings.includeMetadata
                               /\ obs.failed = {}
                               /\ vault.docs[n] # NoFile
                               /\ run[c].manifest.importedPages[n] # NoEntry}

\* C28 (as claimed): for a page imported with metadata the fingerprint
\* analyzeChanges reads back from the page document is the fingerprint that
\* was embedded in it and stored in the manifest, whichever value
\* hashImageData returned.
C28_FingerprintRoundTrip ==
    \A c \in Callers :
       \A n \in ImportedWithMetadata(c) :
          /\ EmbeddedHash(vault.docs[n].hashLine) = run[c].manifest.importedPages[n].imageHash
          /\ ReadFileHash(vault.docs[n]) = run[c].manifest.importedPages[n].imageHash

\* C28: a page whose fingerprint is a fallback value was imported with
\* metadata.
C28_Witness ==
    \E c \in Callers :
       \E n \in ImportedWithMetadata(c) :
          IsFallback(run[c].manifest.importedPages[n].imageHash)

\* The part of C28 that holds: the round trip of a 32-hex digest.
C28_DigestRoundTrip ==
    \A c \in Callers :
       \A n \in ImportedWithMetadata(c) :
          IsDigest(run[c].manifest.importedPages[n].imageHash) =>
             /\ EmbeddedHash(vault.docs[n].hashLine) = run[c].manifest.importedPages[n].imageHash
             /\ ReadFileHash(vault.docs[n]) = run[c].manifest.importedPages[n].imageHash

\* The positions of a run from the start of the Executor to its return.
InExecutor == {"batch", "awaitBatch", "finish", "save", "gemini", "returned"}

\* C29: from the start of the Executor to its return, the entry of every page
\* number that is not in the selection, the numbers the book no longer has
\* included, is in the run's manifest what it was in the manifest the
\* Executor was given, and so it is in the manifest file the run has saved.
C29_OnlySelectedEntriesChange ==
    \A c \in Callers :
       run[c].pc \in InExecutor =>
          \A n \in Pages \ SeqToSet(run[c].pagesToImport) :
             /\ run[c].manifest.importedPages[n] = obs.before.importedPages[n]
             /\ (/\ run[c].pc \in {"gemini", "returned"}
                 /\ obs.failed = {}
                 /\ ~obs.touched) =>
                   vault.manifestFile.importedPages[n] = obs.before.importedPages[n]

\* C29: a run has returned that imported the one page its book has; the
\* manifest has the entry of a page the book no longer has.
C29_Witness ==
    \E c \in Callers :
       /\ run[c].pc = "returned"
       /\ obs.failed = {}
       /\ ~obs.touched
       /\ vault.manifestFile = run[c].manifest
       /\ \E n \in SelectedPages(c) :
             run[c].manifest.importedPages[n] # obs.before.importedPages[n]
       /\ \E n \in Pages \ SeqToSet(run[c].pagesToImport) :
             /\ n \notin DecodedNums(c)
             /\ run[c].manifest.importedPages[n] # NoEntry

\* ------------------------------------------------------- audio resolution
\* File names are sequences of characters. The archive lists a page for
\* every position 1..MaxAudioPages; vault.files is the list of its entry
\* paths (Object.keys(zip.files)) and run[1].book the pages resolved so far,
\* each with the entry attached as its audio.

\* String.prototype.includes
Includes(str, pat) ==
    \E i \in 0..(Len(str) - Len(pat)) : SubSeq(str, i + 1, i + Len(pat)) = pat

\* String.prototype.endsWith
EndsWith(str, pat) ==
    Len(str) >= Len(pat) /\ SubSeq(str, Len(str) - Len(pat) + 1, Len(str)) = pat

\* String(n).padStart(3, '0')
PadStart3(n) == LET t == NumToStr(n)
                IN [i \in 1..(IF Len(t) < 3 THEN 3 - Len(t) ELSE 0) |-> "0"] \o t

\* The literal patterns of page n, in their order (part_001:1759-1764).
AudioPatterns(n) ==
    << <<"a", "u", "d", "i", "o", "/", "p", "a", "g", "e", "_">> \o NumToStr(n),
       <<"a", "u", "d", "i", "o", "/", "P", "a", "g", "e", "_">> \o NumToStr(n),
       <<"p", "a", "g", "e", "_">> \o NumToStr(n) \o <<".", "m", "4", "a">>,
       <<"P", "a", "g", "e">> \o PadStart3(n),
       <<"a", "u", "d", "i", "o", "/">> \o NumToStr(n) >>

Digits == {"0", "1", "2", "3", "4", "5", "6", "7", "8", "9"}

DigitValue(d) == CHOOSE v \in 0..9 : DigitChar(v) = d

\* The flag i of the regular expression, for the letters of its literal.
FoldCase(chr) ==
    CASE chr = "A" -> "a" [] chr = "U" -> "u" [] chr = "D" -> "d"
      [] chr = "I" -> "i" [] chr = "O" -> "o" [] OTHER -> chr

RECURSIVE DigitRunValue(_, _)
\* parseInt of the longest run of digits at the head of str, after acc.
DigitRunValue(str, acc) ==
    IF str # <<>> /\ Head(str) \in Digits
    THEN DigitRunValue(Tail(str), 10 * acc + DigitValue(Head(str)))
    ELSE acc

\* f.match(/audio[\/\\].*?(\d+)/i) and parseInt of its group
\* (part_001:1766-1769): the first run of digits after the first "audio/" or
\* "audio\" that has a digit after it; 0 stands for no match.
AudioNumber(f) ==
    LET folded == [i \in 1..Len(f) |-> FoldCase(f[i])]
        starts == {i \in 1..Len(f) :
                     /\ i + 5 <= Len(f)
                     /\ SubSeq(folded, i, i + 4) = <<"a", "u", "d", "i", "o">>
                     /\ f[i + 5] \in {"/", "\\"}
                     /\ \E j \in (i + 6)..Len(f) : f[j] \in Digits}
    IN IF starts = {} THEN 0
       ELSE LET i == CHOOSE x \in starts : \A y \in starts : x <= y
                j == CHOOSE x \in (i + 6)..Len(f) :
                        /\ f[x] \in Digits
                        /\ \A y \in (i + 6)..(x - 1) : f[y] \notin Digits
            IN DigitRunValue(SubSeq(f, j, Len(f)), 0)

NoMatch == [kind |-> "NoMatch"]

\* files.find(f => test(f)), hits being the positions of the list whose
\* entry passes the test: the first such entry.
FindFile(files, hits) ==
    IF hits = {} THEN NoMatch
    ELSE files[CHOOSE i \in hits : \A j \in hits : i <= j]

\* The code unit of a character of the modelled file names.
CharCode(chr) ==
    CASE chr = "." -> 46 [] chr = "/" -> 47 [] chr \in Digits -> 48 + DigitValue(chr)
      [] chr = "_" -> 95 [] chr = "a" -> 97 [] chr = "c" -> 99 [] chr = "d" -> 100
      [] chr = "e" -> 101 [] chr = "g" -> 103 [] chr = "i" -> 105 [] chr = "m" -> 109
      [] chr = "o" -> 111 [] chr = "p" -> 112 [] chr = "r" -> 114 [] chr = "u" -> 117
      [] OTHER -> 127

RECURSIVE StrLess(_, _)
\* The order of Array.prototype.sort without a comparator: by code units.
StrLess(a, b) ==
    IF a = <<>> THEN b # <<>>
    ELSE IF b = <<>> THEN FALSE
    ELSE IF Head(a) = Head(b) THEN StrLess(Tail(a), Tail(b))
    ELSE CharCode(Head(a)) < CharCode(Head(b))

RECURSIVE SortStrings(_)
SortStrings(S) ==
    IF S = {} THEN <<>>
    ELSE LET least == CHOOSE x \in S : \A y \in S \ {x} : StrLess(x, y)
         IN <<least>> \o SortStrings(S \ {least})

\* allAudioFiles (part_001:1712), sorted (part_001:1789).
SortedAudioFiles(files) ==
    SortStrings({files[i] : i \in {k \in 1..Len(files) :
                                      \/ Includes(files[k], <<"a", "u", "d", "i", "o">>)
                                      \/ EndsWith(files[k], <<".", "m", "4", "a">>)
                                      \/ EndsWith(files[k], <<".", "m", "p", "3">>)}})

RECURSIVE ByPatterns(_, _, _)
\* The loop over the patterns (part_001:1772-1784): the literal patterns in
\* their order, then the regular expression; the first match wins.
ByPatterns(files, n, k) ==
    IF k > Len(AudioPatterns(n))
    THEN FindFile(files, {i \in 1..Len(files) : AudioNumber(files[i]) = n})
    ELSE LET hit == FindFile(files, {i \in 1..Len(files) :
                                        Includes(files[i], AudioPatterns(n)[k])})
         IN IF hit # NoMatch THEN hit ELSE ByPatterns(files, n, k + 1)

\* The audio entry of page n (part_001:1756-1794): by the patterns, or else
\* the entry at the page's position among the sorted audio entries.
ResolveAudio(files, n) ==
    LET named == ByPatterns(files, n, 1)
        sorted == SortedAudioFiles(files)
    IN IF named # NoMatch THEN named
       ELSE IF n <= Len(sorted) THEN sorted[n]
       ELSE NoMatch

\* The audio entries an archive may hold, in the order of the archive:
\* page 10's and page 1's recording, a recording numbered 2 and a memo.
AudioEntries ==
    << <<"a", "u", "d", "i", "o", "/", "p", "a", "g", "e", "_", "1", "0", ".", "m", "4", "a">>,
       <<"a", "u", "d", "i", "o", "/", "p", "a", "g", "e", "_", "1", ".", "m", "4", "a">>,
       <<"a", "u", "d", "i", "o", "/", "r", "e", "c", "2", ".", "m", "4", "a">>,
       <<"m", "e", "m", "o", ".", "m", "4", "a">> >>

InitAudio ==
    /\ settings = DefaultSettings
    /\ importInProgress = TRUE
    /\ obs = NoObs
    /\ \E files \in SubSequences(AudioEntries) \cup SubSequences(Reverse(AudioEntries)) :
          vault = [files |-> files]
    /\ run = [c \in Callers |-> [IdleRun EXCEPT !.pc = "accepted"]]

\* One round of the page loop of convertNoteToBook (part_001:1731-1811).
DecodeNextPage ==
    /\ Len(run[1].book) < MaxAudioPages
    /\ LET n == Len(run[1].book) + 1
       IN run' = [run EXCEPT ![1].book =
                     Append(@, [pageNum |-> n, audio |-> ResolveAudio(vault.files, n)])]
    /\ UNCHANGED <<settings, vault, importInProgress, obs>>

NextAudio == DecodeNextPage

SpecAudio == InitAudio /\ [][NextAudio]_vars

\* C30 (as claimed): the audio entry attached to page n names page n: no
\* entry whose name carries another page number is attached to it, and no
\* entry is attached to two pages.
C30_AudioNamesItsPage ==
    LET book == run[1].book
    IN /\ \A i \in 1..Len(book) :
             (book[i].audio # NoMatch /\ AudioNumber(book[i].audio) # 0) =>
                AudioNumber(book[i].audio) = book[i].pageNum
       /\ \A i, j \in 1..Len(book) :
             (i # j /\ book[i].audio # NoMatch) => book[i].audio # book[j].audio

\* C30: page 1 was resolved in an archive that holds the recordings of page 1
\* and of page 10, and an audio entry was attached to it.
C30_Witness ==
    /\ Len(run[1].book) >= 1
    /\ run[1].book[1].audio # NoMatch
    /\ \E i, j \in 1..Len(vault.files) :
          /\ AudioNumber(vault.files[i]) = 1
          /\ AudioNumber(vault.files[j]) = 10

\* The part of C30 that holds: the entry a literal pattern of page n finds
\* is preferred to the one the regular expression finds, and both to the
\* positional one.
C30_FirstMatchWins ==
    LET book == run[1].book
    IN \A i \in 1..Len(book) :
          LET literal == {f \in SeqToSet(vault.files) :
                            \E k \in 1..Len(AudioPatterns(i)) : Includes(f, AudioPatterns(i)[k])}
              numbered == {f \in SeqToSet(vault.files) : AudioNumber(f) = i}
          IN /\ literal # {} => book[i].audio \in literal
             /\ (literal = {} /\ numbered # {}) => book[i].audio \in numbered
             /\ (literal = {} /\ numbered = {} /\ book[i].audio # NoMatch) =>
                   book[i].audio = SortedAudioFiles(vault.files)[i]

\* ------------------------------------------------ sentinels and re-imports
\* Whether a manifest (in memory or in the file) has a sentinel at page n.
HasSentinel(m, n) ==
    /\ m \notin {NoManifest, CorruptFile}
    /\ m.importedPages[n] # NoEntry
    /\ IsSentinel(m.importedPages[n].imageHash)

\* Whether a manifest has an entry at page n that is no sentinel.
HasFingerprint(m, n) ==
    /\ m \notin {NoManifest, CorruptFile}
    /\ m.importedPages[n] # NoEntry
    /\ ~IsSentinel(m.importedPages[n].imageHash)

\* Whether the run of c has imported page n: it was selected, decoded, its
\* task is over and it is not in summary.errors.
Imported(c, n) ==
    /\ run[c].pc \in ExecutorPcs
    /\ n \in SelectedPages(c)
    /\ n \in SeqToSet(run[c].summary.newPages \o run[c].summary.modifiedPages
                      \o run[c].summary.unchangedPages)
    /\ n \notin run[c].inflight
    /\ \A i \in 1..Len(run[c].summary.errors) : run[c].summary.errors[i].page # n

\* C31 (as claimed): after a run that imported page p the manifest's
\* imageHash for p is the decoded page's fingerprint and no sentinel, and a
\* sentinel entry of the manifest is replaced only by such an import of that
\* page: the in-memory entry by the page's task, the entry in the manifest
\* file by the save of a run that imported the page.
C31_SentinelReplacedByImport ==
    [][\A n \in Pages :
          /\ \A c \in Callers :
                Imported(c, n)' =>
                   /\ HasFingerprint(run[c].manifest, n)'
                   /\ run'[c].manifest.importedPages[n].imageHash
                         = PageOf(c, n)'.image.hash
          /\ \A c \in Callers :
                (HasSentinel(run[c].manifest, n) /\ HasFingerprint(run[c].manifest, n)'
                    /\ run[c].pc \in ExecutorPcs) =>
                   Imported(c, n)'
          /\ (HasSentinel(vault.manifestFile, n) /\ HasFingerprint(vault.manifestFile, n)') =>
                \E c \in Callers : Imported(c, n)]_vars

\* C31: a run has imported a page whose entry was a sentinel when the
\* Executor started, and has returned.
C31_Witness ==
    \E c \in Callers, n \in Pages :
       /\ run[c].pc = "returned"
       /\ Imported(c, n)
       /\ HasSentinel(obs.before, n)
       /\ HasFingerprint(vault.manifestFile, n)

\* The part of C31 about the manifest object of the run: an imported page has
\* the decoded page's fingerprint there, and a sentinel of that object is
\* replaced only by the page's task.
C31_ImportReplacesSentinel ==
    [][\A n \in Pages, c \in Callers :
          /\ Imported(c, n)' =>
                /\ HasFingerprint(run[c].manifest, n)'
                /\ run'[c].manifest.importedPages[n].imageHash = PageOf(c, n)'.image.hash
          /\ (HasSentinel(run[c].manifest, n) /\ HasFingerprint(run[c].manifest, n)'
                /\ run[c].pc \in ExecutorPcs) =>
                Imported(c, n)']_vars

\* ------------------------------------------- the Executor's classification
\* The class the Executor gave page n in its summary ("none" when the page is
\* in none of the three lists).
ExecutorClass(c, n) ==
    IF n \in SeqToSet(run[c].summary.newPages) THEN "new"
    ELSE IF n \in SeqToSet(run[c].summary.modifiedPages) THEN "modified"
    ELSE IF n \in SeqToSet(run[c].summary.unchangedPages) THEN "unchanged"
    ELSE "none"

\* The runs whose Executor works on an analysed book.
ClassifiedTwice ==
    {c \in Callers : run[c].pc \in ExecutorPcs /\ run[c].analysis # NoAnalysis}

\* C32 (as claimed): the class the Executor gives a selected page is the
\* class analyzeChanges gave that page in the same run.
C32_ExecutorAgreesWithAnalyzer ==
    \A c \in ClassifiedTwice, n \in Pages :
       ExecutorClass(c, n) # "none" => ExecutorClass(c, n) = ClassOf(run[c].analysis, n)

\* C32: the Executor has classified a page that the analysis of the same run
\* had classified, after a recovery or a reset of the manifest.
C32_Witness ==
    \E c \in ClassifiedTwice, n \in Pages :
       /\ ExecutorClass(c, n) # "none"
       /\ ClassOf(run[c].analysis, n) # "none"
       /\ HasSentinel(obs.before, n)

\* The part of C32 that holds: the two agree on which pages are new.
C32_AgreeOnNew ==
    \A c \in ClassifiedTwice, n \in Pages :
       ExecutorClass(c, n) # "none" =>
          (ExecutorClass(c, n) = "new" <=> ClassOf(run[c].analysis, n) = "new")

\* --------------------------------------------- writers of the manifest file
\* The positions of a run between its manifest load and its last save.
BetweenLoadAndSave ==
    {"recover", "loaded", "dialog", "dismissed", "selected", "batch", "awaitBatch",
     "finish", "save", "gemini"}

\* Whether the manifest file holds a manifest whose entries are all reset.
FileIsReset ==
    /\ vault.manifestFile \notin {NoManifest, CorruptFile}
    /\ ManifestKeys(vault.manifestFile) # {}
    /\ \A n \in ManifestKeys(vault.manifestFile) :
          StartsWith(vault.manifestFile.importedPages[n].imageHash, ResetPrefix)

\* A step of the reset-book-hashes command.
ResetStep ==
    /\ ~FileIsReset
    /\ FileIsReset'
    /\ UNCHANGED run

\* C33 (as claimed): the reset-book-hashes command does not load, change and
\* save the manifest while an import run is between its manifest load and its
\* last save, and the save of a run never replaces a reset manifest file by
\* the copy the run had loaded before the reset.
C33_SingleWriter ==
    [][/\ ResetStep => \A c \in Callers : run[c].pc \notin BetweenLoadAndSave
       /\ \A c \in Callers :
             (FileIsReset /\ run[c].pc \in {"save", "gemini"}
                /\ vault.manifestFile' # vault.manifestFile) =>
                obs.loaded = vault.manifestFile]_vars

\* C33: the manifest file was reset while a run that had loaded it was at its
\* selection dialog or in its Executor.
C33_Witness ==
    \E c \in Callers :
       /\ run[c].pc \in BetweenLoadAndSave
       /\ run[c].hasExisting
       /\ FileIsReset
       /\ \E n \in Pages : HasFingerprint(run[c].manifest, n)

\* ------------------------------------------------------------- lastImport
\* The runs that have returned after a save of the manifest that succeeded.
Persisted ==
    {c \in Callers : /\ run[c].pc = "returned"
                     /\ <<0, "save">> \notin obs.failed
                     /\ ~obs.touched
                     /\ vault.manifestFile = run[c].manifest}

\* C34 (as claimed): after a run that has persisted the manifest, lastImport
\* of the manifest file is the time of that run.
C34_LastImportAdvances ==
    \A c \in Persisted : vault.manifestFile.lastImport = Clock

\* C34: a second run on a book whose manifest the first run created has
\* persisted the manifest.
C34_Witness ==
    \E c \in Persisted : Clock = 2 /\ run[c].hasExisting /\ obs.loaded # NoManifest

\* The part of C34 that holds: a run that creates the manifest (in the
\* Executor or by recovery) stamps it with its own time.
C34_LastImportOfCreation ==
    \A c \in Persisted : obs.loaded = NoManifest => vault.manifestFile.lastImport = Clock

\* ------------------------------------------------- totalPages and entries
\* C35 (as claimed): in the manifest file every page number that has an
\* entry is between 1 and totalPages.
C35_EntriesWithinTotal ==
    vault.manifestFile \notin {NoManifest, CorruptFile} =>
       \A n \in ManifestKeys(vault.manifestFile) :
          1 <= n /\ n <= vault.manifestFile.totalPages

\* C35: the manifest file holds the entry of a page imported from an archive
\* from which an earlier page was dropped.
C35_Witness ==
    \E c \in Callers, n \in Pages :
       /\ run[c].pc = "returned"
       /\ Len(run[c].book) < n
       /\ Imported(c, n)
       /\ vault.manifestFile \notin {NoManifest, CorruptFile}
       /\ n \in ManifestKeys(vault.manifestFile)

\* The part of C35 that holds: the manifest a recovery writes has its entries
\* within totalPages.
C35_RecoveredWithinTotal ==
    \A c \in Callers :
       (run[c].pc \in {"loaded", "dialog"} /\ obs.recovered /\ ~obs.touched
          /\ vault.manifestFile \notin {NoManifest, CorruptFile}) =>
          \A n \in ManifestKeys(vault.manifestFile) : n <= vault.manifestFile.totalPages

\* ----------------------------------------------------- the manifest grows
IsManifest(m) == m \notin {NoManifest, CorruptFile}

\* Whether manifest `new` has every entry key of `old` and at least its
\* totalPages.
Grows(old, new) ==
    /\ ManifestKeys(old) \subseteq ManifestKeys(new)
    /\ old.totalPages <= new.totalPages

\* C36: from one state to the next the key set of importedPages never shrinks
\* and totalPages never decreases, in the manifest file and in the manifest
\* object of a run; and an analysis reports as 'deleted' every page that has
\* an entry and is not in the decoded book, so that a page once reported
\* 'deleted' keeps its entry and is reported again.
C36_ManifestOnlyGrows ==
    [][/\ (IsManifest(vault.manifestFile) /\ IsManifest(vault.manifestFile')) =>
             Grows(vault.manifestFile, vault.manifestFile')
       /\ \A c \in Callers :
             /\ (IsManifest(run[c].manifest) /\ IsManifest(run'[c].manifest)) =>
                   Grows(run[c].manifest, run'[c].manifest)
             /\ (run[c].pc = "loaded" /\ run'[c].pc = "dialog"
                   /\ run'[c].analysis # NoAnalysis) =>
                   \A n \in ManifestKeys(run[c].manifest) \ DecodedNums(c) :
                      /\ ClassOf(run'[c].analysis, n) = "deleted"
                      /\ n \in SeqToSet(run'[c].analysis.summary.deletedPages)]_vars

\* C36: a run whose analysis reported a page 'deleted' has imported another
\* page and saved the manifest, and the file still has the deleted page's
\* entry.
C36_Witness ==
    \E c \in Callers, n \in Pages, k \in Pages :
       /\ run[c].pc = "returned"
       /\ run[c].analysis # NoAnalysis
       /\ ClassOf(run[c].analysis, n) = "deleted"
       /\ Imported(c, k)
       /\ "executor" \in SeqToSet(obs.saves)
       /\ IsManifest(vault.manifestFile)
       /\ n \in ManifestKeys(vault.manifestFile)

\* -------------------------------------------------- the transcription flag
\* Whether the page document of page n holds a transcription section.
HasTranscription(n) == vault.docs[n] # NoFile /\ vault.docs[n].gemini = "done"

\* C37 (as claimed): when no run is in progress, every entry of the manifest
\* file with geminiProcessed = true belongs to a page whose document holds
\* the transcription section.
C37_FlagImpliesTranscription ==
    (~importInProgress /\ IsManifest(vault.manifestFile)) =>
       \A n \in ManifestKeys(vault.manifestFile) :
          vault.manifestFile.importedPages[n].geminiProcessed => HasTranscription(n)

\* C37: a run has imported a page again whose entry had geminiProcessed =
\* true when the run loaded the manifest, and has returned.
C37_Witness ==
    \E c \in Callers, n \in Pages :
       /\ run[c].pc = "returned"
       /\ ~importInProgress
       /\ Imported(c, n)
       /\ IsManifest(obs.before)
       /\ obs.before.importedPages[n] # NoEntry
       /\ obs.before.importedPages[n].geminiProcessed
       /\ vault.manifestFile = run[c].manifest

\* ------------------------------------------------- the Executor's summary
\* The page numbers of summary.errors, in their order.
ErrorPages(sm) == [i \in 1..Len(sm.errors) |-> sm.errors[i].page]

\* The four lists of an Executor summary that account for selected pages.
OutcomeLists(sm) ==
    sm.newPages \o sm.modifiedPages \o sm.unchangedPages \o ErrorPages(sm)

\* The runs whose Executor has returned its summary.
Summarised == {c \in Callers : run[c].pc = "returned"}

\* C38 (as claimed): in the summary the Executor returns every selected page
\* number is in exactly one of newPages, modifiedPages, unchangedPages and
\* errors, and totalPages is the number of pages in these four lists.
C38_SummaryPartition ==
    \A c \in Summarised :
       /\ \A n \in SeqToSet(run[c].pagesToImport) :
             Occurrences(OutcomeLists(run[c].summary), n) = 1
       /\ run[c].summary.totalPages = Len(OutcomeLists(run[c].summary))

\* C38: the Executor has returned a summary for a selection of which one
\* page failed.
C38_Witness ==
    \E c \in Summarised :
       /\ run[c].pagesToImport # <<>>
       /\ run[c].summary.errors # <<>>

\* The part of C38 that holds: a selected page that was decoded is in exactly
\* one of newPages, modifiedPages and unchangedPages, no other number is in
\* them, and totalPages is the length of the selection.
C38_ClassifiedOnce ==
    \A c \in Summarised :
       LET sm == run[c].summary
           classes == sm.newPages \o sm.modifiedPages \o sm.unchangedPages
       IN /\ \A n \in Pages :
                Occurrences(classes, n) = IF n \in SelectedPages(c) THEN 1 ELSE 0
          /\ sm.totalPages = Len(run[c].pagesToImport)

\* ----------------------------------------------------------- the batch loop
\* The Executor alone, on a first import of a book of MaxPage pages: every
\* non-empty selection in page order, every batch size up to MaxBatchSize
\* (the slider of the settings tab allows 1..20, part_001:937-947).
InitBatchLoop ==
    /\ \E bs \in 1..MaxBatchSize : settings = [DefaultSettings EXCEPT !.batchSize = bs]
    /\ vault = EmptyVault
    /\ importInProgress = TRUE
    /\ obs = [NoObs EXCEPT !.runs = 1]
    /\ \E pages \in SubSequences(RangePages(1, MaxPage, MaxPage)) \ {<<>>} :
          run = [c \in Callers |->
                    IF c = 1
                    THEN [IdleRun EXCEPT
                            !.pc = "selected", !.archive = "base",
                            !.book = DecodePages([p \in Pages |->
                                                     Source(Blob("A", TRUE), FALSE, FALSE)],
                                                 1, MaxPage, FALSE),
                            !.pagesToImport = pages]
                    ELSE IdleRun]

NextBatchLoop ==
    \/ FolderFails(1)
    \/ StartExecutor(1)
    \/ StartBatch(1)
    \/ \E n \in Pages, failAt \in FailPoints : TaskFinish(1, n, failAt)
    \/ NextBatch(1)
    \/ IndexFails(1)
    \/ Finish(1)
    \/ SaveManifest(1)

\* Every awaited promise of the Executor settles: it keeps taking steps
\* while it has one to take.
SpecBatchLoop == InitBatchLoop /\ [][NextBatchLoop]_vars /\ WF_vars(NextBatchLoop)

\* ceil(n / k)
CeilDiv(n, k) == (n + k - 1) \div k

\* The batches the loop has begun.
BatchesBegun(r, st) ==
    IF r.pc = "awaitBatch" THEN r.batchStart \div st.batchSize + 1
    ELSE r.batchStart \div st.batchSize

\* Whether the Executor went through all of its batches, starting the task
\* of every selected page exactly once, and appended its history entry.
AfterAllBatches(r, st) ==
    /\ BatchesBegun(r, st) = CeilDiv(Len(r.pagesToImport), st.batchSize)
    /\ \A n \in SeqToSet(r.pagesToImport) :
          Occurrences(r.summary.newPages \o r.summary.modifiedPages
                      \o r.summary.unchangedPages, n) = 1
    /\ r.manifest.history # <<>>
    /\ Head(r.manifest.history).pages = r.pagesToImport

\* C39 (as claimed): whatever the selection and the batch size, the Executor
\* comes to its end having run ceil(n / batchSize) batches, started every
\* selected page's task exactly once, appended the history entry and saved
\* the manifest.
C39_ReachesSave ==
    <>(/\ run[1].pc = "returned"
       /\ AfterAllBatches(run[1], settings)
       /\ "executor" \in SeqToSet(obs.saves))

\* C39: the Executor has returned from a selection of three pages in batches
\* of two, one page task having failed.
C39_Witness ==
    /\ run[1].pc = "returned"
    /\ Len(run[1].pagesToImport) = 3
    /\ settings.batchSize = 2
    /\ BatchesBegun(run[1], settings) = 2
    /\ run[1].summary.errors # <<>>

\* The part of C39 that holds: the Executor always comes to an end, by its
\* return or by an exception of ensureFolder or createBookIndex, and when it
\* is past its loop it has run ceil(n / batchSize) batches and started every
\* selected page's task exactly once.
C39_Terminates == <>(run[1].pc \in {"returned", "failed"})

C39_BatchCount ==
    /\ run[1].pc \in {"save", "returned"} => AfterAllBatches(run[1], settings)
    /\ run[1].pc \in {"batch", "awaitBatch", "finish"} =>
          BatchesBegun(run[1], settings) <= CeilDiv(Len(run[1].pagesToImport), settings.batchSize)
    /\ run[1].pc = "finish" =>
          BatchesBegun(run[1], settings) = CeilDiv(Len(run[1].pagesToImport), settings.batchSize)

====
